---------------------------- MODULE Spec2Model ----------------------------
(***************************************************************************)
(* A model of the cache-augmented, LLM-validated question answering loop   *)
(* of src/src/backend: LocalCache (cache.py), MessageFetcher (fetcher.py)  *)
(* and QAService.answer_question (qa_service.py).                          *)
(*                                                                         *)
(* Python strings are sequences of one-character strings, so that lower()  *)
(* and the substring test `a in b` are computed, not assumed.  A value     *)
(* that the code reads through `x or ""` is the empty sequence when it is  *)
(* absent or empty.  A message dict is named by its key in MessageTable.   *)
(***************************************************************************)
EXTENDS Integers, Sequences, FiniteSets, TLC

\* ------------------------------------------------------------------ bounds

\* QAService._page_size (Settings.page_size, at least 1), scaled down.
PageSize == 2

\* Number of messages the remote feed holds.
RemoteLen == 4

\* Most messages the cache holds when it is driven directly (CacheSpec).
MaxCached == 3

\* ----------------------------------------------------------------- strings

\* A string literal as a sequence of its characters.
Chars(s) == [i \in 1..Len(s) |-> SubSeq(s, i, i)]

UpperCase == Chars("ABCDEFGHIJKLMNOPQRSTUVWXYZ")
LowerCase == Chars("abcdefghijklmnopqrstuvwxyz")
Digits == Chars("0123456789")

Range(seq) == {seq[i] : i \in 1..Len(seq)}

\* The characters str.strip() removes and \s matches, among those that occur.
Whitespace == {" ", "\t", "\n", "\r"}

LowerChar(c) ==
    IF c \in Range(UpperCase)
    THEN LowerCase[CHOOSE i \in 1..Len(UpperCase) : UpperCase[i] = c]
    ELSE c

\* str.lower()
Lower(s) == [i \in 1..Len(s) |-> LowerChar(s[i])]

\* Python's `needle in hay` on strings.
Contains(hay, needle) ==
    \E i \in 0..(Len(hay) - Len(needle)) :
        \A j \in 1..Len(needle) : hay[i + j] = needle[j]

Min(a, b) == IF a < b THEN a ELSE b

\* seq[start : start + limit] with a 0-based start, as Python slices.
Slice(seq, start, limit) ==
    SubSeq(seq, start + 1, Min(start + limit, Len(seq)))

\* ---------------------------------------------------------------- messages

\* Optional values: None is the empty sequence, a value v is <<v>>.
None == <<>>
Some(v) == <<v>>

NoTimestamp == [kind |-> "none", at |-> 0]
BadTimestamp == [kind |-> "bad", at |-> 0]
Iso(n) == [kind |-> "iso", at |-> n]

\* The message dicts that occur.  id, user_name and message are <<>> when
\* the key is absent or empty.  1..5 are the remote feed in feed order (its
\* ids are unique where present); 6 carries the id of 2 with another text;
\* 7 is a message a cache file holds from an earlier run.
MessageTable ==
    << [id |-> Chars("1"), user_name |-> Chars("Al"),
        message |-> Chars("Ref pol"), timestamp |-> Iso(2)],
       [id |-> Chars("2"), user_name |-> Chars("Bo"),
        message |-> Chars("ref"), timestamp |-> Iso(3)],
       [id |-> <<>>, user_name |-> Chars("AL"),
        message |-> Chars("pol ref"), timestamp |-> Iso(2)],
       [id |-> Chars("4"), user_name |-> Chars("Al"),
        message |-> Chars("pol"), timestamp |-> NoTimestamp],
       [id |-> Chars("5"), user_name |-> <<>>,
        message |-> Chars("REF"), timestamp |-> BadTimestamp],
       [id |-> Chars("2"), user_name |-> Chars("Bo"),
        message |-> Chars("pol"), timestamp |-> Iso(1)],
       [id |-> Chars("7"), user_name |-> Chars("Alice Smith"),
        message |-> Chars("The refund policy will be updated"),
        timestamp |-> Iso(1)] >>

\* item.get("id") or "", item.get("user_name") or "", ...
ItemId(m) == MessageTable[m].id
UserName(m) == MessageTable[m].user_name
MessageText(m) == MessageTable[m].message
Timestamp(m) == MessageTable[m].timestamp

\* The remote feed: GET /messages/ serves Remote[skip+1 .. skip+limit].
Remote == [i \in 1..RemoteLen |-> i]

\* ------------------------------------------------------------------- state

VARIABLES
    cache,      \* LocalCache: [messages, ids, remote_total]
    file,       \* the cache file: [exists, messages, remote_total]
    gens,       \* iter_pages generator objects, by slot
    frame,      \* answer_question calls, by slot: locals and position
    hist,       \* history of each call: fetches issued, pages seen, answers found
    last_append, \* history: the latest append_items call, None before the first
    stream,     \* an iterate_pages generator run on its own, and its remote
    parsing,    \* a QuestionParser.parse call on its own: the text, the result
    service,    \* main.py: qa_service, and the responses sent, by slot
    helper      \* a helper called on its own: its arguments and its result

vars ==
    <<cache, file, gens, frame, hist, last_append, stream, parsing, service,
      helper>>

Slots == {1, 2}

\* ------------------------------------------------------------- LocalCache

\* LocalCache.__init__ with no cache file.
EmptyCache == [messages |-> <<>>, ids |-> {}, remote_total |-> None]

\* The cache file.  content says how its text reads:
\*   "store"        the JSON object _persist writes;
\*   "blank"        empty, or whitespace only;
\*   "unreadable"   read_text raises (no permission, not UTF-8);
\*   "not_json"     json.loads raises;
\*   "not_object"   a JSON value with no .get (a list, a number);
\*   "bad_messages" an object whose "messages" is a number, so list() raises;
\*   "bad_message"  an object whose "messages" holds the messages given and
\*                  after them a value that is no object: the comprehension
\*                  of the ids raises after _messages and _remote_total
\*                  were assigned.
NoFile ==
    [exists |-> FALSE, content |-> "", messages |-> <<>>, remote_total |-> None]

\* LocalCache._persist: the whole store, rewritten.
Persist(c) ==
    [exists |-> TRUE, content |-> "store", messages |-> c.messages,
     remote_total |-> c.remote_total]

\* An append loop that puts each new item in front of the store.
RECURSIVE AppendLoopAtFront(_, _, _)
AppendLoopAtFront(c, items, changed) ==
    IF items = <<>> THEN [cache |-> c, changed |-> changed]
    ELSE LET item == Head(items)
             item_id == ItemId(item)
         IN IF item_id # <<>> /\ item_id \in c.ids
            THEN AppendLoopAtFront(c, Tail(items), changed)
            ELSE AppendLoopAtFront(
                   [c EXCEPT !.messages = <<item>> \o @,
                             !.ids = IF item_id # <<>> THEN @ \cup {item_id} ELSE @],
                   Tail(items), TRUE)

\* An append loop that stores every item, known id or not.
RECURSIVE AppendLoopNoDedup(_, _, _)
AppendLoopNoDedup(c, items, changed) ==
    IF items = <<>> THEN [cache |-> c, changed |-> changed]
    ELSE AppendLoopNoDedup(
           [c EXCEPT !.messages = Append(@, Head(items)),
                     !.ids = IF ItemId(Head(items)) # <<>>
                             THEN @ \cup {ItemId(Head(items))} ELSE @],
           Tail(items), TRUE)

\* The for loop of append_items; the result carries `changed`.
RECURSIVE AppendLoop(_, _, _)
AppendLoop(c, items, changed) ==
    IF items = <<>> THEN [cache |-> c, changed |-> changed]
    ELSE LET item == Head(items)
             item_id == ItemId(item)
         IN IF item_id # <<>> /\ item_id \in c.ids
            THEN AppendLoop(c, Tail(items), changed)
            ELSE AppendLoop(
                   [c EXCEPT !.messages = Append(@, item),
                             !.ids = IF item_id # <<>> THEN @ \cup {item_id} ELSE @],
                   Tail(items), TRUE)

\* An append that writes the file before it stores the new remote total.
AppendItemsPersistFirst(c, f, items, remote_total) ==
    IF items = <<>> THEN [cache |-> c, file |-> f]
    ELSE LET looped == AppendLoop(c, items, FALSE)
             c2 == IF remote_total # None
                   THEN [looped.cache EXCEPT !.remote_total = remote_total]
                   ELSE looped.cache
             changed == looped.changed \/ remote_total # None
         IN [cache |-> c2,
             file |-> IF changed THEN Persist(looped.cache) ELSE f]

\* An append that writes the file only when it stored a new message.
AppendItemsPersistOnNewMessages(c, f, items, remote_total) ==
    IF items = <<>> THEN [cache |-> c, file |-> f]
    ELSE LET looped == AppendLoop(c, items, FALSE)
             c2 == IF remote_total # None
                   THEN [looped.cache EXCEPT !.remote_total = remote_total]
                   ELSE looped.cache
         IN [cache |-> c2, file |-> IF looped.changed THEN Persist(c2) ELSE f]

\* LocalCache.append_items: the store and the file after the call.
AppendItems(c, f, items, remote_total) ==
    IF items = <<>> THEN [cache |-> c, file |-> f]
    ELSE LET looped == AppendLoop(c, items, FALSE)
             c2 == IF remote_total # None
                   THEN [looped.cache EXCEPT !.remote_total = remote_total]
                   ELSE looped.cache
             changed == looped.changed \/ remote_total # None
         IN [cache |-> c2, file |-> IF changed THEN Persist(c2) ELSE f]

\* The try block of LocalCache._load: the exception it raised, "" for
\* none, and the store as the block left it (of a "bad_message" file, its
\* messages without the entry that is no object).
LoadTry(f) ==
    LET assigned == [messages |-> f.messages, ids |-> {},
                     remote_total |-> f.remote_total]
    IN IF ~f.exists \/ f.content = "blank"
       THEN [raised |-> "", cache |-> EmptyCache]
       ELSE IF f.content = "unreadable"
       THEN [raised |-> "OSError", cache |-> EmptyCache]
       ELSE IF f.content = "not_json"
       THEN [raised |-> "JSONDecodeError", cache |-> EmptyCache]
       ELSE IF f.content = "not_object"
       THEN [raised |-> "AttributeError", cache |-> EmptyCache]
       ELSE IF f.content = "bad_messages"
       THEN [raised |-> "TypeError", cache |-> EmptyCache]
       ELSE IF f.content = "bad_message"
       THEN [raised |-> "AttributeError", cache |-> assigned]
       ELSE [raised |-> "",
             cache |-> [assigned EXCEPT !.ids =
                          {ItemId(f.messages[i]) : i \in 1..Len(f.messages)}
                              \ {<<>>}]]

\* The except clause of _load, "except Exception": the exceptions it catches.
Caught(exception) ==
    exception \in {"OSError", "JSONDecodeError", "AttributeError", "TypeError"}

\* A _load whose except clause leaves the store as the try block left it.
LoadKeepingPartial(f) == LoadTry(f).cache

\* LocalCache._load: the store after it; a caught exception of the try
\* block resets the store.
Load(f) ==
    LET tried == LoadTry(f)
    IN IF tried.raised # "" /\ Caught(tried.raised) THEN EmptyCache
       ELSE tried.cache

\* LocalCache.__init__ on an existing directory: the exception it raised,
\* "" for none, and the store it built.
Construct(f) ==
    LET tried == LoadTry(f)
    IN [raised |-> IF Caught(tried.raised) THEN "" ELSE tried.raised,
        cache |-> Load(f)]

\* LocalCache.cached_count
CachedCount(c) == Len(c.messages)

\* A generator object of iter_pages.  state is "new" before the first
\* next(), "running" while suspended at the yield, "finished" after the
\* return.  out, snap and fresh are history: the pages yielded, the store
\* and file when the generator was made, and whether no append_items call
\* was made since.
NoGen ==
    [state |-> "none", limit |-> 0, total |-> 0, start |-> 0,
     out |-> <<>>, snap |-> <<EmptyCache, NoFile>>, fresh |-> FALSE]

\* self._cache.iter_pages(limit): nothing runs until the first next().
IterPages(c, f, limit) ==
    [state |-> "new", limit |-> limit, total |-> 0, start |-> 0,
     out |-> <<>>, snap |-> <<c, f>>, fresh |-> TRUE]

\* A page that takes one message more than the limit.
CachePageOverlapping(c, total, start, limit) ==
    [total |-> IF c.remote_total # None /\ c.remote_total # Some(0)
               THEN c.remote_total ELSE Some(total),
     items |-> Slice(c.messages, start, limit + 1)]

\* The page dict iter_pages yields at `start`.
CachePage(c, total, start, limit) ==
    [total |-> IF c.remote_total # None /\ c.remote_total # Some(0)
               THEN c.remote_total ELSE Some(total),
     items |-> Slice(c.messages, start, limit)]

\* next() on an iter_pages generator: the generator afterwards; it is
\* "running" when a page was yielded (the last of out).
IterNext(c, g) ==
    LET total == IF g.state = "new" THEN Len(c.messages) ELSE g.total
        start == IF g.state = "new" THEN 0 ELSE g.start + g.limit
    IN IF g.state = "finished" \/ total = 0 \/ start >= total
       THEN [g EXCEPT !.state = "finished", !.total = total]
       ELSE [g EXCEPT !.state = "running", !.total = total, !.start = start,
                      !.out = Append(@, CachePage(c, total, start, g.limit))]

\* Every generator alive has seen an append_items call.
Stale(gs) ==
    [s \in Slots |->
        [gs[s] EXCEPT !.fresh = FALSE, !.snap = <<EmptyCache, NoFile>>]]

\* ------------------------------------------------------------ the question

\* The questions asked (request.question).
Questions ==
    { Chars(""), Chars("  "), Chars(" \t\n"), Chars("Al ref pol"), Chars("ref") }

\* QuestionParser._stop_words
StopWords ==
    { Chars(w) : w \in
        { "a", "an", "and", "are", "as", "at", "be", "but", "by", "for",
          "from", "in", "is", "it", "of", "on", "or", "that", "the", "their",
          "this", "to", "with", "who", "what", "when", "where", "why", "how",
          "was", "were", "will", "has", "have", "her", "his", "him", "she",
          "he", "you", "your", "yours", "our", "ours", "my", "mine" } }

\* The words after which a capitalised phrase is taken for a place.
LocationCues ==
    { Chars(w) : w \in {"to", "in", "at", "into", "onto", "towards", "from"} }

\* The characters of _token_pattern, [A-Za-z0-9']+
TokenChars == Range(UpperCase) \cup Range(LowerCase) \cup Range(Digits) \cup {"'"}

\* The end of the longest run of characters of `set` that starts at i
\* (i - 1 when s[i] is not in the set): a greedy + or *.
RunEnd(s, i, set) ==
    CHOOSE j \in (i - 1)..Len(s) :
        /\ \A k \in i..j : s[k] \in set
        /\ j = Len(s) \/ s[j + 1] \notin set

\* _token_pattern.findall(s), from position i on.
RECURSIVE FindTokens(_, _)
FindTokens(s, i) ==
    IF i > Len(s) THEN <<>>
    ELSE IF s[i] \notin TokenChars THEN FindTokens(s, i + 1)
    ELSE LET j == RunEnd(s, i, TokenChars)
         IN <<SubSeq(s, i, j)>> \o FindTokens(s, j + 1)

\* [A-Z][a-z]+ matches at i.
WordAt(s, i) ==
    /\ i + 1 <= Len(s)
    /\ s[i] \in Range(UpperCase)
    /\ s[i + 1] \in Range(LowerCase)

\* (?:\s+[A-Z][a-z]+)* after a word that ends at e: the end of the match.
RECURSIVE ExtendName(_, _)
ExtendName(s, e) ==
    LET w == RunEnd(s, e + 1, Whitespace)
    IN IF w > e /\ WordAt(s, w + 1)
       THEN ExtendName(s, RunEnd(s, w + 2, Range(LowerCase)))
       ELSE e

\* _name_pattern.finditer(s), from position i on: [start, end] of each
\* match, with start as match.start() counts it (from 0).
RECURSIVE FindNames(_, _)
FindNames(s, i) ==
    IF i > Len(s) THEN <<>>
    ELSE IF ~WordAt(s, i) THEN FindNames(s, i + 1)
    ELSE LET e == ExtendName(s, RunEnd(s, i + 1, Range(LowerCase)))
         IN <<[start |-> i - 1, group |-> SubSeq(s, i, e)]>>
                \o FindNames(s, e + 1)

RECURSIVE LStrip(_)
LStrip(s) == IF s # <<>> /\ Head(s) \in Whitespace THEN LStrip(Tail(s)) ELSE s

RECURSIVE RStrip(_)
RStrip(s) ==
    IF s # <<>> /\ s[Len(s)] \in Whitespace
    THEN RStrip(SubSeq(s, 1, Len(s) - 1)) ELSE s

\* str.strip()
Strip(s) == RStrip(LStrip(s))

\* QuestionParser._preceded_by_location_cue
PrecededByLocationCue(text, start) ==
    LET prefix == RStrip(SubSeq(text, 1, start))
        tokens == FindTokens(prefix, 1)
    IN /\ prefix # <<>>
       /\ tokens # <<>>
       /\ Lower(tokens[Len(tokens)]) \in LocationCues

\* The loop of _extract_member_name over matches[1..n], last first.
RECURSIVE LastName(_, _, _)
LastName(question, matches, n) ==
    IF n = 0 THEN <<>>
    ELSE LET normalized == Strip(matches[n].group)
         IN IF /\ normalized # <<>>
               /\ Lower(normalized) \notin StopWords
               /\ ~PrecededByLocationCue(question, matches[n].start)
            THEN normalized
            ELSE LastName(question, matches, n - 1)

\* QuestionParser._extract_member_name; <<>> is None.
ExtractMemberName(question) ==
    LET matches == FindNames(question, 1)
    IN LastName(question, matches, Len(matches))

\* A keyword loop that drops only the tokens shorter than two characters.
RECURSIVE KeywordLoopKeepingShort(_, _)
KeywordLoopKeepingShort(tokens, keywords) ==
    IF tokens = <<>> THEN keywords
    ELSE LET token == Head(tokens)
         IN IF token \in StopWords \/ Len(token) < 2 \/ token \in Range(keywords)
            THEN KeywordLoopKeepingShort(Tail(tokens), keywords)
            ELSE KeywordLoopKeepingShort(Tail(tokens), Append(keywords, token))

\* The loop of _extract_keywords: `seen` is the set of the keywords so far.
RECURSIVE KeywordLoop(_, _)
KeywordLoop(tokens, keywords) ==
    IF tokens = <<>> THEN keywords
    ELSE LET token == Head(tokens)
         IN IF token \in StopWords \/ Len(token) <= 2 \/ token \in Range(keywords)
            THEN KeywordLoop(Tail(tokens), keywords)
            ELSE KeywordLoop(Tail(tokens), Append(keywords, token))

\* QuestionParser._extract_keywords
ExtractKeywords(question) ==
    LET found == FindTokens(question, 1)
    IN KeywordLoop([i \in 1..Len(found) |-> Lower(found[i])], <<>>)

\* QuestionParser.parse
Parse(question) ==
    [member_name |-> ExtractMemberName(question),
     keywords |-> ExtractKeywords(question)]

\* A parse call on its own: no call yet.
NoParsing == [question |-> <<>>, done |-> FALSE, result |-> Parse(<<>>)]

\* ------------------------------------------------------------ MessageFetcher

\* What one GET /messages/ can come to.
FetchOutcomes ==
    {"ok", "ok_no_total", "unreachable", "bad_status", "not_object", "not_json"}

\* MessageFetcher.fetch_page: the exception it raises ("" for none) and the
\* page it returns.
FetchPage(outcome, skip, limit) ==
    CASE outcome = "unreachable" -> [raised |-> "RuntimeError", page |-> None]
      [] outcome = "bad_status" -> [raised |-> "RuntimeError", page |-> None]
      [] outcome = "not_object" -> [raised |-> "RuntimeError", page |-> None]
      [] outcome = "not_json" -> [raised |-> "JSONDecodeError", page |-> None]
      [] outcome = "ok_no_total" ->
            [raised |-> "",
             page |-> Some([total |-> None, items |-> Slice(Remote, skip, limit)])]
      [] OTHER ->
            [raised |-> "",
             page |-> Some([total |-> Some(Len(Remote)),
                            items |-> Slice(Remote, skip, limit)])]

\* Largest total the remote of a lone iterate_pages run reports, and the
\* largest limit the run is given.
MaxTotal == 10
MaxLimit == 4

\* The JSON value under "total" of a page: an integer, a string (its
\* characters), or null, which page.get("total") also gives for no key.
JsonInt(n) == [kind |-> "int", n |-> n, text |-> <<>>]
JsonString(chars) == [kind |-> "string", n |-> 0, text |-> chars]
JsonNull == [kind |-> "null", n |-> 0, text |-> <<>>]

\* str(n) of a natural number, as characters.
RECURSIVE DecimalChars(_)
DecimalChars(n) ==
    IF n < 10 THEN <<Digits[n + 1]>>
    ELSE DecimalChars(n \div 10) \o <<Digits[(n % 10) + 1]>>

\* int(text) of a string: the number of a digit string, surrounding
\* whitespace ignored, and None where int() raises ValueError.
RECURSIVE DecimalValue(_)
DecimalValue(chars) ==
    IF chars = <<>> THEN 0
    ELSE 10 * DecimalValue(SubSeq(chars, 1, Len(chars) - 1))
         + (CHOOSE d \in 0..9 : Digits[d + 1] = chars[Len(chars)])

IntOfString(chars) ==
    LET stripped == Strip(chars)
    IN IF stripped # <<>> /\ Range(stripped) \subseteq Range(Digits)
       THEN Some(DecimalValue(stripped))
       ELSE None

\* How the remote of a lone iterate_pages run reports its total: as a JSON
\* integer, as a string of digits, as null, or as a string that is no
\* number.
Reports == {"int", "digits", "null", "text"}

Reported(reports, count) ==
    CASE reports = "int" -> JsonInt(count)
      [] reports = "digits" -> JsonString(DecimalChars(count))
      [] reports = "null" -> JsonNull
      [] OTHER -> JsonString(Chars("many"))

\* A remote that holds `count` messages, numbered from 1, reports that total
\* in its way and honours skip and limit: the page of
\* GET /messages/?skip=&limit=.
RemotePage(reports, count, skip, limit) ==
    [total |-> Reported(reports, count),
     items |-> [i \in 1..(IF skip < count THEN Min(skip + limit, count) - skip ELSE 0)
                  |-> skip + i]]

\* An iterate_pages generator.  state is "none" (no generator), "new"
\* (made, not started), "fetch" (awaiting fetch_page), "yielded" (suspended
\* at the yield), "sleep" (in asyncio.sleep(5)) or "ended".  remote is the
\* number of messages its remote holds and reports the way it reports
\* them; offsets and yielded are history: the skip of every fetch_page
\* call and every page yielded.
NoStream ==
    [state |-> "none", remote |-> 0, reports |-> "int", limit |-> 0, start |-> 0,
     skip |-> 0, total |-> None, offsets |-> <<>>, yielded |-> <<>>]

\* iterate_pages(limit, start): nothing runs until the first __anext__.
IteratePages(remote, limit, start) ==
    [state |-> "new", remote |-> remote, reports |-> "int", limit |-> limit,
     start |-> start, skip |-> start, total |-> None, offsets |-> <<>>,
     yielded |-> <<>>]

\* A loop test that lets skip reach the total.
WhileTestInclusive(it) == it.total = None \/ it.skip <= it.total[1]

\* while total is None or skip < total
WhileTest(it) == it.total = None \/ it.skip < it.total[1]

\* The loop test, then fetch_page(skip, limit) is called or the generator ends.
EnterLoop(it) ==
    IF WhileTest(it)
    THEN [it EXCEPT !.state = "fetch", !.offsets = Append(@, it.skip)]
    ELSE [it EXCEPT !.state = "ended"]

\* fetch_page returned `page`: it is yielded.
YieldPage(it, page) ==
    [it EXCEPT !.state = "yielded", !.yielded = Append(@, page)]

\* total after the statements that read page.get("total"): an int is taken
\* as it is, anything else goes through int(), and where int() raises
\* TypeError or ValueError total keeps its value.
ConvertTotal(total_value, total) ==
    IF total_value.kind = "int" THEN Some(total_value.n)
    ELSE IF total_value.kind = "string" /\ IntOfString(total_value.text) # None
    THEN IntOfString(total_value.text)
    ELSE total

\* A generator that goes on to the sleep after an empty page too.
ResumeAfterYieldWithoutBreak(it) ==
    LET page == it.yielded[Len(it.yielded)]
    IN [it EXCEPT !.total = ConvertTotal(page.total, @),
                  !.skip = @ + it.limit,
                  !.state = "sleep"]

\* From the statement after the yield to the sleep or the break.
ResumeAfterYield(it) ==
    LET page == it.yielded[Len(it.yielded)]
        it2 == [it EXCEPT !.total = ConvertTotal(page.total, @),
                          !.skip = @ + it.limit]
    IN IF page.items = <<>> THEN [it2 EXCEPT !.state = "ended"]
       ELSE [it2 EXCEPT !.state = "sleep"]

\* ---------------------------------------------------------------- the LLMs

\* What the name resolver's completion can come to:
\*   "error"         the request raises;
\*   "no_tool"       no choice, no message or no tool call;
\*   "bad_json"      the tool call's arguments are no JSON;
\*   "not_object"    the arguments are JSON but no object;
\*   "names_number"  selected_names is a number instead of an array;
\*   "names_string"  selected_names is the string "Al" instead of an array;
\*   "tool"          selected_names is an array of names (empty or absent
\*                   when `selected` is empty).
ResolverReplies ==
    {[kind |-> k, selected |-> {}] :
        k \in {"error", "no_tool", "bad_json", "not_object", "names_number"}}
    \cup {[kind |-> "names_string", selected |-> {<<"A">>, <<"l">>}]}
    \cup {[kind |-> "tool", selected |-> S] :
            S \in SUBSET {Chars("Al"), Chars("bo")}}

\* LLMNameResolver.select_names, given the completion: the exception it
\* raises ("" for none) and the set it returns.  Iterating a string gives
\* its characters, iterating a number raises TypeError outside the try.
SelectNames(reply) ==
    CASE reply.kind \in {"error", "no_tool", "bad_json", "not_object"} ->
            [raised |-> "", names |-> {}]
      [] reply.kind = "names_number" -> [raised |-> "TypeError", names |-> {}]
      [] OTHER ->
            [raised |-> "",
             names |-> {Lower(Strip(name)) :
                          name \in {n \in reply.selected : Strip(n) # <<>>}}]

\* The name resolver calls the LLM only for a page with a sender name.
PageNames(items) ==
    SelectSeq([i \in 1..Len(items) |-> UserName(items[i])], LAMBDA n : n # <<>>)

\* What the validator's completion can come to.
AnswerTexts == {"a1", "a2", "NO_ANSWER"}
SourceNumbers == {None} \cup {Some(n) : n \in (0 - 1)..(PageSize + 1)}
Contents == {"", "NO_ANSWER", "no_answer", "No_Answer", " no_answer\n", "a1", " a1 "}

\* payload says how the tool call's function.arguments read:
\*   "not_json"    json.loads raises;
\*   "not_object"  the JSON value is no object, so payload.get raises;
\*   "bad_source"  source_number is a value int() raises on;
\*   "bad_answer"  answer_text is the JSON number 42, which str() makes "42";
\*   "ok"          both fields are as the tool's schema asks, or absent.
\* answer_text is str(payload.get("answer_text") or ""), content is
\* choice.message.content or "".
Completions ==
    {[kind |-> "error", payload |-> "", answer_text |-> "",
      source_number |-> None, content |-> ""]}
    \cup {[kind |-> "tool", payload |-> p, answer_text |-> "",
           source_number |-> None, content |-> "a1"] :
            p \in {"not_json", "not_object"}}
    \cup {[kind |-> "tool", payload |-> "bad_source", answer_text |-> "a1",
           source_number |-> None, content |-> ""],
          [kind |-> "tool", payload |-> "bad_answer", answer_text |-> "42",
           source_number |-> Some(1), content |-> ""],
          [kind |-> "tool", payload |-> "ok", answer_text |-> " a2\n",
           source_number |-> Some(1), content |-> "a1"]}
    \cup {[kind |-> "tool", payload |-> "ok", answer_text |-> a,
           source_number |-> n, content |-> ""] :
            a \in AnswerTexts, n \in SourceNumbers}
    \cup {[kind |-> "tool", payload |-> "ok", answer_text |-> a,
           source_number |-> Some(1), content |-> c] :
            a \in {"", "  "}, c \in Contents}
    \cup {[kind |-> "text", payload |-> "", answer_text |-> "",
           source_number |-> None, content |-> c] : c \in Contents}

UpperChar(c) ==
    IF c \in Range(LowerCase)
    THEN UpperCase[CHOOSE i \in 1..Len(LowerCase) : LowerCase[i] = c]
    ELSE c

\* str.upper()
Upper(s) == [i \in 1..Len(s) |-> UpperChar(s[i])]

\* The string of a sequence of characters.
RECURSIVE Text(_)
Text(chars) == IF chars = <<>> THEN "" ELSE Head(chars) \o Text(Tail(chars))

\* str.strip() of a string.
StripText(s) == Text(Strip(Chars(s)))

NO_ANSWER == [answer |-> "NO_ANSWER", source_index |-> None]

\* A validator that takes any plain text content for an answer.
ValidatorResultContentFirst(completion) ==
    LET answer_text == StripText(completion.answer_text)
        message_content == StripText(completion.content)
    IN IF /\ completion.kind = "tool"
          /\ completion.payload \in {"not_json", "not_object", "bad_source"}
       THEN NO_ANSWER
       ELSE IF message_content # ""
       THEN [answer |-> message_content, source_index |-> None]
       ELSE IF completion.kind = "tool" /\ answer_text # ""
       THEN [answer |-> answer_text, source_index |-> completion.source_number]
       ELSE NO_ANSWER

\* LLMValidator.validate_and_answer after the completion came back.
ValidatorResult(completion) ==
    LET answer_text == StripText(completion.answer_text)
        message_content == StripText(completion.content)
    IN IF /\ completion.kind = "tool"
          /\ completion.payload \in {"not_json", "not_object", "bad_source"}
       THEN NO_ANSWER
       ELSE IF completion.kind = "tool" /\ answer_text # ""
       THEN [answer |-> answer_text, source_index |-> completion.source_number]
       ELSE IF Upper(Chars(message_content)) = Chars("NO_ANSWER") THEN NO_ANSWER
       ELSE IF message_content # ""
       THEN [answer |-> message_content, source_index |-> None]
       ELSE NO_ANSWER

\* ---------------------------------------------------------------- QAService

\* AnswerResult; no result yet is NoResult (best_result = None).
AnswerResult(answer, message) == [answer |-> answer, message |-> message]
NoResult == AnswerResult("", None)
Fallback ==
    AnswerResult("I couldn't find the answer in the available messages.", None)
PromptForInput == AnswerResult("Please provide a non-empty question.", None)

\* datetime.min
DatetimeMin == 0

\* A filter that wants the parsed member name in the sender whatever the
\* resolver selected.
FilterCandidatesNameAndResolver(items, parsed, resolved_names) ==
    LET resolved_targets == {Lower(name) : name \in {n \in resolved_names : n # <<>>}}
        Keeps(item) ==
            /\ resolved_targets # {} => Lower(UserName(item)) \in resolved_targets
            /\ parsed.member_name # <<>> =>
                  Contains(Lower(UserName(item)), Lower(parsed.member_name))
            /\ IF parsed.keywords # <<>>
               THEN \E k \in 1..Len(parsed.keywords) :
                       Contains(Lower(MessageText(item)), parsed.keywords[k])
               ELSE TRUE
    IN SelectSeq(items, Keeps)

\* A filter that wants the sender to be the parsed member name.
FilterCandidatesExactSender(items, parsed, resolved_names) ==
    LET resolved_targets == {Lower(name) : name \in {n \in resolved_names : n # <<>>}}
        Keeps(item) ==
            /\ IF resolved_targets # {}
               THEN Lower(UserName(item)) \in resolved_targets
               ELSE IF parsed.member_name # <<>>
               THEN Lower(UserName(item)) = Lower(parsed.member_name)
               ELSE TRUE
            /\ IF parsed.keywords # <<>>
               THEN \E k \in 1..Len(parsed.keywords) :
                       Contains(Lower(MessageText(item)), parsed.keywords[k])
               ELSE TRUE
    IN SelectSeq(items, Keeps)

\* QAService._filter_candidates
FilterCandidates(items, parsed, resolved_names) ==
    LET resolved_targets == {Lower(name) : name \in {n \in resolved_names : n # <<>>}}
        Keeps(item) ==
            /\ IF resolved_targets # {}
               THEN Lower(UserName(item)) \in resolved_targets
               ELSE IF parsed.member_name # <<>>
               THEN Contains(Lower(UserName(item)), Lower(parsed.member_name))
               ELSE TRUE
            /\ IF parsed.keywords # <<>>
               THEN \E k \in 1..Len(parsed.keywords) :
                       Contains(Lower(MessageText(item)), parsed.keywords[k])
               ELSE TRUE
    IN SelectSeq(items, Keeps)

\* A selection that takes source_index for a position counted from 0.
SelectSourceMessageZeroBased(candidates, source_index) ==
    IF candidates = <<>> THEN None
    ELSE IF /\ source_index # None
            /\ source_index[1] >= 0
            /\ source_index[1] < Len(candidates)
    THEN Some(candidates[source_index[1] + 1])
    ELSE IF Len(candidates) = 1 THEN Some(candidates[1])
    ELSE None

\* QAService._select_source_message
SelectSourceMessage(candidates, source_index) ==
    IF candidates = <<>> THEN None
    ELSE IF /\ source_index # None
            /\ source_index # Some(0)
            /\ source_index[1] - 1 >= 0
            /\ source_index[1] - 1 < Len(candidates)
    THEN Some(candidates[source_index[1]])
    ELSE IF Len(candidates) = 1 THEN Some(candidates[1])
    ELSE None

\* QAService._score_candidate
ScoreCandidate(message, parsed) ==
    IF message = None THEN <<0, DatetimeMin>>
    ELSE LET message_text == Lower(MessageText(message[1]))
             keyword_matches ==
                 Cardinality({k \in 1..Len(parsed.keywords) :
                                Contains(message_text, parsed.keywords[k])})
             timestamp_raw == Timestamp(message[1])
         IN <<keyword_matches,
              IF timestamp_raw.kind = "iso" THEN timestamp_raw.at ELSE DatetimeMin>>

\* A comparison that lets an equal score replace the best.
ScoreGreaterOrEqual(a, b) == a[1] > b[1] \/ (a[1] = b[1] /\ a[2] >= b[2])

\* Tuple comparison score > best_score.
ScoreGreater(a, b) == a[1] > b[1] \/ (a[1] = b[1] /\ a[2] > b[2])

\* A frame whose best score starts at zero keyword matches.
IdleFrameZeroScore ==
    [pc |-> "idle", question |-> <<>>, parsed |-> Parse(<<>>),
     best_result |-> NoResult, best_score |-> <<0, DatetimeMin>>,
     source |-> "", page |-> [total |-> None, items |-> <<>>],
     candidates |-> <<>>, remote_start |-> 0, skip |-> 0, total |-> None,
     result |-> NoResult, raised |-> ""]

\* A call of answer_question: its locals and where it is suspended.
\*   pc: "idle" (no call), "resolve" (awaiting select_names' completion),
\*       "validate" (awaiting validate_and_answer's completion), "fetch"
\*       (awaiting fetch_page's response), "sleep" (in asyncio.sleep(5)),
\*       "done" (returned `result`), "raised" (raised `raised`).
\*   skip, total: the locals of iterate_pages.
IdleFrame ==
    [pc |-> "idle", question |-> <<>>, parsed |-> Parse(<<>>),
     best_result |-> NoResult, best_score |-> <<0 - 1, DatetimeMin>>,
     source |-> "", page |-> [total |-> None, items |-> <<>>],
     candidates |-> <<>>, remote_start |-> 0, skip |-> 0, total |-> None,
     result |-> NoResult, raised |-> ""]

\* History of a call.
\*   fetches: the skip of each fetch_page call, in order;
\*   fetched: the pages fetch_page returned, in order;
\*   failed: a fetch_page call raised;
\*   pages: the pages process_page ran on, in order, with their source and
\*          the candidates filtered from them;
\*   found: the non-sentinel validations, in order, each with its source
\*          message, its score and the number of the page it was found on;
\*   at_replay_end: cached_count when the cache replay finished (None before);
\*   ended: how the remote stream ended, "" while it has not.
NoHist ==
    [fetches |-> <<>>, fetched |-> <<>>, failed |-> FALSE, pages |-> <<>>,
     found |-> <<>>, at_replay_end |-> None, ended |-> ""]

\* The state one call acts on: the store, the file, the call's generator,
\* frame and history, and the append_items call made, if any.
World(q) ==
    [cache |-> cache, file |-> file, gen |-> gens[q], f |-> frame[q],
     h |-> hist[q], appended |-> None]

\* The record of an append_items call: its arguments and the store before.
AppendCall(before, items, remote_total) ==
    [before |-> before, items |-> items, remote_total |-> remote_total]

\* return best_result if best_result else AnswerResult(fallback)
Final(w, how) ==
    [w EXCEPT !.f.pc = "done",
              !.f.result = IF w.f.best_result # NoResult
                           THEN w.f.best_result ELSE Fallback,
              !.h.ended = how]

\* The exception leaves answer_question.
Raise(w, exception) == [w EXCEPT !.f.pc = "raised", !.f.raised = exception]

\* fetch_page(skip, limit) is called (the first statement of the while body).
CallFetch(w) ==
    [w EXCEPT !.f.pc = "fetch", !.h.fetches = Append(@, w.f.skip)]

\* A remote phase that starts over at offset 0.
StartRemoteFromZero(w) ==
    CallFetch([w EXCEPT !.f.remote_start = 0, !.f.skip = 0, !.f.total = None])

\* A remote phase that fetches nothing when the store already holds as many
\* messages as the total it recorded.
StartRemoteUnlessComplete(w) ==
    LET remote_start == CachedCount(w.cache)
        w2 == [w EXCEPT !.f.remote_start = remote_start,
                        !.f.skip = remote_start,
                        !.f.total = None]
    IN IF w.cache.remote_total # None /\ remote_start >= w.cache.remote_total[1]
       THEN Final(w2, "total_reached")
       ELSE CallFetch(w2)

\* remote_start = cached_count; iterate_pages(limit, start) up to its first
\* fetch_page call.
StartRemote(w) ==
    LET remote_start == CachedCount(w.cache)
    IN CallFetch([w EXCEPT !.f.remote_start = remote_start,
                           !.f.skip = remote_start,
                           !.f.total = None])

\* iterate_pages from the statement after its yield to its next suspension.
AfterYield(w) ==
    LET items == w.f.page.items
        total_value == w.f.page.total
        w2 == [w EXCEPT !.f.total = IF total_value # None THEN total_value ELSE @,
                        !.f.skip = @ + PageSize]
    IN IF items = <<>> THEN Final(w2, "empty_page")
       ELSE [w2 EXCEPT !.f.pc = "sleep"]

\* A loop body that caches only the pages of a call that found an answer.
AppendPageWhenAnswered(w) ==
    IF w.h.found = <<>> THEN AfterYield(w)
    ELSE LET r == AppendItems(w.cache, w.file, w.f.page.items, w.f.page.total)
         IN AfterYield([w EXCEPT !.cache = r.cache, !.file = r.file,
                                 !.appended = Some(AppendCall(w.cache, w.f.page.items,
                                                              w.f.page.total))])

\* The body of `async for page in iterate_pages` after process_page:
\* append_items, then the generator is resumed.
AppendPage(w) ==
    LET r == AppendItems(w.cache, w.file, w.f.page.items, w.f.page.total)
    IN AfterYield([w EXCEPT !.cache = r.cache, !.file = r.file,
                            !.appended = Some(AppendCall(w.cache, w.f.page.items,
                                                         w.f.page.total))])

\* An accumulation that takes every answer as the new best.
AccumulateLatest(w, validation) ==
    LET source_message == SelectSourceMessage(w.f.candidates, validation.source_index)
        score == ScoreCandidate(source_message, w.f.parsed)
        answer == AnswerResult(validation.answer, source_message)
    IN [w EXCEPT !.h.found = Append(@, [result |-> answer, score |-> score,
                                        page_no |-> Len(w.h.pages) + 1]),
                 !.f.best_score = score, !.f.best_result = answer]

\* if score > best_score: best_score, best_result = ...
Accumulate(w, validation) ==
    LET source_message == SelectSourceMessage(w.f.candidates, validation.source_index)
        score == ScoreCandidate(source_message, w.f.parsed)
        answer == AnswerResult(validation.answer, source_message)
        w2 == [w EXCEPT !.h.found =
                  Append(@, [result |-> answer, score |-> score,
                             page_no |-> Len(w.h.pages) + 1])]
    IN IF ScoreGreater(score, w.f.best_score)
       THEN [w2 EXCEPT !.f.best_score = score, !.f.best_result = answer]
       ELSE w2

RECURSIVE NextCachedPage(_)
RECURSIVE ProcessPage(_)
RECURSIVE AfterResolve(_, _)
RECURSIVE AfterValidation(_, _)
RECURSIVE AfterPage(_)

\* A replay loop that is left after its first page.
AfterPageLeavingReplay(w) ==
    LET w2 == [w EXCEPT !.h.pages =
                  Append(@, [source |-> w.f.source, items |-> w.f.page.items,
                             candidates |-> IF w.f.page.items = <<>> THEN <<>>
                                            ELSE w.f.candidates])]
    IN IF w.f.source = "cached"
       THEN StartRemote([w2 EXCEPT !.h.at_replay_end = Some(Len(w.cache.messages))])
       ELSE AppendPage(w2)

\* A replay loop that appends each cached page to the cache again.
AfterPageAppendingReplay(w) ==
    LET w2 == [w EXCEPT !.h.pages =
                  Append(@, [source |-> w.f.source, items |-> w.f.page.items,
                             candidates |-> IF w.f.page.items = <<>> THEN <<>>
                                            ELSE w.f.candidates])]
        r == AppendItems(w.cache, w.file, w.f.page.items, w.f.page.total)
    IN IF w.f.source = "cached"
       THEN NextCachedPage([w2 EXCEPT !.cache = r.cache, !.file = r.file,
                                      !.appended = Some(AppendCall(w.cache,
                                                                   w.f.page.items,
                                                                   w.f.page.total))])
       ELSE AppendPage(w2)

\* process_page returned: the loop it was called from goes on.
AfterPage(w) ==
    LET w2 == [w EXCEPT !.h.pages =
                  Append(@, [source |-> w.f.source, items |-> w.f.page.items,
                             candidates |-> IF w.f.page.items = <<>> THEN <<>>
                                            ELSE w.f.candidates])]
    IN IF w.f.source = "cached" THEN NextCachedPage(w2) ELSE AppendPage(w2)

\* A search that returns at the first answer.
AfterValidationFirstWins(w, validation) ==
    IF validation.answer = "NO_ANSWER" THEN AfterPage(w)
    ELSE Final(Accumulate(w, validation), "answered")

\* process_page from the validation on.
AfterValidation(w, validation) ==
    IF validation.answer = "NO_ANSWER" THEN AfterPage(w)
    ELSE AfterPage(Accumulate(w, validation))

\* A process_page that sends every candidate list to the validator's LLM,
\* the empty one too.
AfterResolveAlwaysValidating(w, resolved_names) ==
    LET candidates == FilterCandidates(w.f.page.items, w.f.parsed, resolved_names)
    IN [w EXCEPT !.f.candidates = candidates, !.f.pc = "validate"]

\* process_page from the resolved names to the validator's LLM call, which
\* is not made for an empty candidate list.
AfterResolve(w, resolved_names) ==
    LET candidates == FilterCandidates(w.f.page.items, w.f.parsed, resolved_names)
        w2 == [w EXCEPT !.f.candidates = candidates]
    IN IF candidates = <<>> THEN AfterValidation(w2, NO_ANSWER)
       ELSE [w2 EXCEPT !.f.pc = "validate"]

\* process_page up to the resolver's LLM call, which is not made for a page
\* without sender names.
ProcessPage(w) ==
    IF w.f.page.items = <<>> THEN AfterPage(w)
    ELSE IF PageNames(w.f.page.items) = <<>> THEN AfterResolve(w, {})
    ELSE [w EXCEPT !.f.pc = "resolve"]

\* `for page in self._cache.iter_pages(...)`: the next page, or the remote
\* phase when the generator is finished.
NextCachedPage(w) ==
    LET g == IterNext(w.cache, w.gen)
        w2 == [w EXCEPT !.gen = g]
    IN IF g.state = "running"
       THEN ProcessPage([w2 EXCEPT !.f.source = "cached",
                                   !.f.page = g.out[Len(g.out)]])
       ELSE StartRemote([w2 EXCEPT !.h.at_replay_end = Some(Len(w.cache.messages))])

\* The world becomes the state.
Commit(q, w) ==
    /\ cache' = w.cache
    /\ file' = w.file
    /\ last_append' = IF w.appended # None THEN w.appended ELSE last_append
    /\ gens' = IF w.appended # None
               THEN [Stale(gens) EXCEPT ![q] = [w.gen EXCEPT !.fresh = FALSE,
                                                !.snap = <<EmptyCache, NoFile>>]]
               ELSE [gens EXCEPT ![q] = w.gen]
    /\ frame' = [frame EXCEPT ![q] = w.f]
    /\ hist' = [hist EXCEPT ![q] = w.h]
    /\ UNCHANGED <<stream, parsing, service, helper>>

\* A call that parses and searches whatever the question is.
StartWithoutBlankCheck(q, question) ==
    /\ frame[q].pc = "idle"
    /\ LET cleaned_question == Strip(question)
       IN Commit(q, NextCachedPage(
              [World(q) EXCEPT
                 !.f = [IdleFrame EXCEPT !.question = cleaned_question,
                                         !.parsed = Parse(cleaned_question)],
                 !.h = NoHist,
                 !.gen = IterPages(cache, file, PageSize)]))

\* answer_question(question) is called and runs to its first suspension.
Start(q, question) ==
    /\ frame[q].pc = "idle"
    /\ LET cleaned_question == Strip(question)
           w == [World(q) EXCEPT
                   !.f = [IdleFrame EXCEPT !.question = cleaned_question,
                                           !.parsed = Parse(cleaned_question)],
                   !.h = NoHist,
                   !.gen = IterPages(cache, file, PageSize)]
       IN IF cleaned_question = <<>>
          THEN Commit(q, [World(q) EXCEPT
                            !.f = [IdleFrame EXCEPT !.pc = "done",
                                                    !.result = PromptForInput],
                            !.h = NoHist])
          ELSE Commit(q, NextCachedPage(w))

\* The name resolver's completion arrives.
ResolverReturns(q, reply) ==
    /\ frame[q].pc = "resolve"
    /\ LET r == SelectNames(reply)
       IN IF r.raised # "" THEN Commit(q, Raise(World(q), r.raised))
          ELSE Commit(q, AfterResolve(World(q), r.names))

\* The validator's completion arrives, or the call raises.
ValidatorReturns(q, completion) ==
    /\ frame[q].pc = "validate"
    /\ IF completion.kind = "error"
       THEN Commit(q, Raise(World(q), "APIError"))
       ELSE Commit(q, AfterValidation(World(q), ValidatorResult(completion)))

\* fetch_page returns a page or raises.
FetchReturns(q, outcome) ==
    /\ frame[q].pc = "fetch"
    /\ LET r == FetchPage(outcome, frame[q].skip, PageSize)
           w == World(q)
       IN IF r.raised = "RuntimeError"
          THEN Commit(q, Final([w EXCEPT !.h.failed = TRUE], "fetch_failed"))
          ELSE IF r.raised # ""
          THEN Commit(q, Raise([w EXCEPT !.h.failed = TRUE], r.raised))
          ELSE Commit(q, ProcessPage(
                   [w EXCEPT !.f.source = "remote", !.f.page = r.page[1],
                             !.h.fetched = Append(@, r.page[1])]))

\* asyncio.sleep(5) is over: the while condition, then the next fetch.
SleepReturns(q) ==
    /\ frame[q].pc = "sleep"
    /\ LET w == World(q)
       IN IF w.f.total = None \/ w.f.skip < w.f.total[1]
          THEN Commit(q, CallFetch(w))
          ELSE Commit(q, Final(w, "total_reached"))

\* The caller has the result or the exception; the slot is free again.
Return(q) ==
    /\ frame[q].pc \in {"done", "raised"}
    /\ frame' = [frame EXCEPT ![q] = IdleFrame]
    /\ hist' = [hist EXCEPT ![q] = NoHist]
    /\ gens' = [gens EXCEPT ![q] = NoGen]
    /\ UNCHANGED <<cache, file, last_append, stream, parsing, service, helper>>

\* main.py once its module-level try block succeeded: qa_service is set.
\* response is the response each slot's latest /ask request was sent, health
\* the body the latest GET /health was sent.
Service ==
    [qa_service |-> Some("QAService"), response |-> [s \in Slots |-> None],
     health |-> None]

\* No helper is called on its own.
NoCall == [fn |-> "", done |-> FALSE]

Init ==
    /\ cache = EmptyCache
    /\ file = NoFile
    /\ gens = [s \in Slots |-> NoGen]
    /\ frame = [s \in Slots |-> IdleFrame]
    /\ hist = [s \in Slots |-> NoHist]
    /\ last_append = None
    /\ service = Service
    /\ helper = NoCall
    /\ stream = NoStream
    /\ parsing = NoParsing

\* One request at a time.
Next ==
    \E q \in {1} :
        \/ \E question \in Questions : Start(q, question)
        \/ \E reply \in ResolverReplies : ResolverReturns(q, reply)
        \/ \E completion \in Completions : ValidatorReturns(q, completion)
        \/ \E outcome \in FetchOutcomes : FetchReturns(q, outcome)
        \/ SleepReturns(q)
        \/ Return(q)

Spec == Init /\ [][Next]_vars

\* --------------------------------------------------------- concurrent calls

\* What the calls that run side by side are given: one question, a resolver
\* that selects nothing, a validator that answers or not, and a remote that
\* serves a page with or without its total, or is unreachable.
ConcQuestions == {Chars("ref")}
ConcReplies == {r \in ResolverReplies : r.kind = "no_tool"}
ConcCompletions ==
    {c \in Completions :
        \/ c.kind = "tool" /\ c.answer_text = "a1" /\ c.source_number = Some(1)
        \/ c.kind = "text" /\ c.content = "NO_ANSWER"}
ConcOutcomes == {"ok", "ok_no_total", "unreachable"}

\* Calls of answer_question on one event loop: a step is the run of one
\* call from one await to the next.
ConcNext ==
    \E q \in Slots :
        \/ \E question \in ConcQuestions : Start(q, question)
        \/ \E reply \in ConcReplies : ResolverReturns(q, reply)
        \/ \E completion \in ConcCompletions : ValidatorReturns(q, completion)
        \/ \E outcome \in ConcOutcomes : FetchReturns(q, outcome)
        \/ SleepReturns(q)
        \/ Return(q)

ConcSpec == Init /\ [][ConcNext]_vars

\* ------------------------------------------------ a call that is scheduled

\* What a call is given where only its progress matters: one question, a
\* resolver that selects nothing or fails, a validator that answers, does
\* not, or fails, and every outcome of a fetch.
FairReplies == {r \in ResolverReplies : r.kind \in {"no_tool", "error"}}
FairCompletions == ConcCompletions \cup {c \in Completions : c.kind = "error"}

ResolverStep == \E reply \in FairReplies : ResolverReturns(1, reply)
ValidatorStep == \E completion \in FairCompletions : ValidatorReturns(1, completion)
FetchStep == \E outcome \in FetchOutcomes : FetchReturns(1, outcome)

FairNext ==
    \/ \E question \in ConcQuestions : Start(1, question)
    \/ ResolverStep
    \/ ValidatorStep
    \/ FetchStep
    \/ SleepReturns(1)
    \/ Return(1)

\* Every network call the request awaits returns or fails in the end, and
\* the pacing sleep ends; the remote serves an empty page past its last
\* message whether or not it reports a total.
FairSpec ==
    /\ Init
    /\ [][FairNext]_vars
    /\ WF_vars(ResolverStep)
    /\ WF_vars(ValidatorStep)
    /\ WF_vars(FetchStep)
    /\ WF_vars(SleepReturns(1))

\* ------------------------------------- a question on a cache from a file

\* The question asked, the stores the cache file can hold (one page, with
\* the message of Alice Smith), a resolver that selects her or fails, and
\* a validator that returns her message's text as candidate number 1.
AliceQuestion == Chars("What did Alice say about the refund policy?")
AliceStores == {<<7>>, <<7, 2>>, <<2, 7>>}
AliceReplies ==
    {r \in ResolverReplies : r.kind \in {"error", "no_tool"}}
    \cup {[kind |-> "tool", selected |-> {Chars("Alice Smith")}]}
AliceCompletions ==
    {[kind |-> "tool", payload |-> "ok",
      answer_text |-> "The refund policy will be updated",
      source_number |-> Some(1), content |-> ""]}

\* The service starts on a cache file a previous run left.
AliceInit ==
    /\ file \in {[Persist(EmptyCache) EXCEPT !.messages = m] :
                    m \in AliceStores}
    /\ cache = Load(file)
    /\ gens = [s \in Slots |-> NoGen]
    /\ frame = [s \in Slots |-> IdleFrame]
    /\ hist = [s \in Slots |-> NoHist]
    /\ last_append = None
    /\ service = Service
    /\ helper = NoCall
    /\ stream = NoStream
    /\ parsing = NoParsing

AliceNext ==
    \/ Start(1, AliceQuestion)
    \/ \E reply \in AliceReplies : ResolverReturns(1, reply)
    \/ \E completion \in AliceCompletions : ValidatorReturns(1, completion)
    \/ \E outcome \in FetchOutcomes : FetchReturns(1, outcome)
    \/ SleepReturns(1)
    \/ Return(1)

AliceSpec == AliceInit /\ [][AliceNext]_vars

\* ------------------------------------------------ the parser driven directly

\* Most words of a text given to the parser.
MaxWords == 3

\* The words the texts are made of: locative and other stop-words,
\* capitalised and plain words, a short word, one with an apostrophe, a comma.
ParserWords == {"to", "the", "London", "Al", "ref", "Ref", "it's", ","}

\* The words joined by single spaces.
RECURSIVE JoinWords(_)
JoinWords(words) ==
    IF words = <<>> THEN <<>>
    ELSE IF Len(words) = 1 THEN Chars(words[1])
    ELSE Chars(Head(words)) \o <<" ">> \o JoinWords(Tail(words))

ParserTexts ==
    {JoinWords(words) : words \in UNION {[1..n -> ParserWords] : n \in 0..MaxWords}}
    \cup {Chars("I sent it to London"), Chars("Did London mention the event")}

\* parser.parse(question)
ParseCall ==
    /\ ~parsing.done
    /\ parsing' = [parsing EXCEPT !.done = TRUE, !.result = Parse(parsing.question)]
    /\ UNCHANGED <<cache, file, gens, frame, hist, last_append, stream, service,
                   helper>>

ParserInit ==
    /\ cache = EmptyCache
    /\ file = NoFile
    /\ gens = [s \in Slots |-> NoGen]
    /\ frame = [s \in Slots |-> IdleFrame]
    /\ hist = [s \in Slots |-> NoHist]
    /\ last_append = None
    /\ service = Service
    /\ helper = NoCall
    /\ stream = NoStream
    /\ parsing \in {[NoParsing EXCEPT !.question = text] : text \in ParserTexts}

ParserNext == ParseCall

ParserSpec == ParserInit /\ [][ParserNext]_vars

\* ------------------------------------------------- the cache driven directly

\* The items of an append_items call: up to PageSize messages, among them
\* messages without id and two messages of one id.
BatchKeys == {1, 2, 3, 6}
Batches ==
    UNION {[1..n -> BatchKeys] : n \in 0..PageSize}
RemoteTotals == {None, Some(0), Some(RemoteLen)}

\* cache.append_items(items, remote_total), called once the replays under
\* way have been abandoned.
CacheAppend(items, remote_total) ==
    /\ Len(cache.messages) + Len(items) <= MaxCached
    /\ LET r == AppendItems(cache, file, items, remote_total)
       IN /\ cache' = r.cache
          /\ file' = r.file
    /\ gens' = [s \in Slots |-> NoGen]
    /\ last_append' = Some(AppendCall(cache, items, remote_total))
    /\ UNCHANGED <<frame, hist, stream, parsing, service, helper>>

\* g = cache.iter_pages(limit)
CacheIterPages(g, limit) ==
    /\ gens[g].state \in {"none", "finished"}
    /\ gens' = [gens EXCEPT ![g] = IterPages(cache, file, limit)]
    /\ UNCHANGED <<cache, file, frame, hist, last_append, stream, parsing,
                   service, helper>>

\* A replay that records the total it counted in the store.
CacheIterNextRecordingTotal(g) ==
    /\ gens[g].state \in {"new", "running"}
    /\ gens' = [gens EXCEPT ![g] = IterNext(cache, gens[g])]
    /\ cache' = [cache EXCEPT !.remote_total = Some(Len(cache.messages))]
    /\ UNCHANGED <<file, frame, hist, last_append, stream, parsing, service, helper>>

\* next(g)
CacheIterNext(g) ==
    /\ gens[g].state \in {"new", "running"}
    /\ gens' = [gens EXCEPT ![g] = IterNext(cache, gens[g])]
    /\ UNCHANGED <<cache, file, frame, hist, last_append, stream, parsing,
                   service, helper>>

CacheNext ==
    \/ \E items \in Batches, remote_total \in RemoteTotals :
          CacheAppend(items, remote_total)
    \/ \E g \in Slots : CacheIterPages(g, PageSize)
    \/ \E g \in Slots : CacheIterNext(g)

CacheSpec == Init /\ [][CacheNext]_vars

\* ------------------------------------------ the store across restarts

\* The stores a previous run may have left in the file.
StoredMessages == {<<>>, <<1>>, <<1, 2>>, <<3>>, <<1, 3>>}

\* The cache files a run may find: none, one a previous run persisted, or
\* one that does not read as a store.
StoreFiles ==
    {NoFile}
    \cup {[Persist(EmptyCache) EXCEPT !.messages = m, !.remote_total = t] :
              m \in StoredMessages, t \in {None, Some(RemoteLen)}}
    \cup {[Persist(EmptyCache) EXCEPT !.content = k] :
              k \in {"blank", "unreadable", "not_json", "not_object",
                     "bad_messages"}}
    \cup {[Persist(EmptyCache) EXCEPT !.content = "bad_message",
                                      !.messages = m, !.remote_total = t] :
              m \in StoredMessages, t \in {None, Some(RemoteLen)}}

LocalCacheCall(f) ==
    [fn |-> "LocalCache", done |-> TRUE, raised |-> Construct(f).raised]

\* The process ends and a new one constructs LocalCache on the same file.
Restart ==
    /\ cache' = Construct(file).cache
    /\ helper' = LocalCacheCall(file)
    /\ gens' = [s \in Slots |-> NoGen]
    /\ last_append' = None
    /\ UNCHANGED <<file, frame, hist, stream, parsing, service>>

StoreInit ==
    /\ file \in StoreFiles
    /\ cache = Construct(file).cache
    /\ helper = LocalCacheCall(file)
    /\ gens = [s \in Slots |-> NoGen]
    /\ frame = [s \in Slots |-> IdleFrame]
    /\ hist = [s \in Slots |-> NoHist]
    /\ last_append = None
    /\ stream = NoStream
    /\ parsing = NoParsing
    /\ service = Service

StoreNext ==
    \/ \E items \in Batches, remote_total \in RemoteTotals :
          CacheAppend(items, remote_total)
    \/ Restart

StoreSpec == StoreInit /\ [][StoreNext]_vars

\* --------------------------------------------- iterate_pages driven directly

\* The first __anext__ of the generator.
StreamStart ==
    /\ stream.state = "new"
    /\ stream' = EnterLoop(stream)
    /\ UNCHANGED <<cache, file, gens, frame, hist, last_append, parsing, service,
                   helper>>

\* The remote answers the pending fetch_page call.
StreamFetchReturns ==
    /\ stream.state = "fetch"
    /\ stream' = YieldPage(stream, RemotePage(stream.reports, stream.remote,
                                              stream.skip, stream.limit))
    /\ UNCHANGED <<cache, file, gens, frame, hist, last_append, parsing, service,
                   helper>>

\* The consumer asks for the next page.
StreamResume ==
    /\ stream.state = "yielded"
    /\ stream' = ResumeAfterYield(stream)
    /\ UNCHANGED <<cache, file, gens, frame, hist, last_append, parsing, service,
                   helper>>

\* asyncio.sleep(5) is over.
StreamSleepReturns ==
    /\ stream.state = "sleep"
    /\ stream' = EnterLoop(stream)
    /\ UNCHANGED <<cache, file, gens, frame, hist, last_append, parsing, service,
                   helper>>

\* A generator for any total, limit and start within the bounds.
FetcherInit ==
    /\ cache = EmptyCache
    /\ file = NoFile
    /\ gens = [s \in Slots |-> NoGen]
    /\ frame = [s \in Slots |-> IdleFrame]
    /\ hist = [s \in Slots |-> NoHist]
    /\ last_append = None
    /\ service = Service
    /\ helper = NoCall
    /\ parsing = NoParsing
    /\ stream \in {IteratePages(remote, limit, start) :
                      remote \in 0..MaxTotal, limit \in 1..MaxLimit,
                      start \in 0..MaxTotal}

FetcherNext ==
    \/ StreamStart
    \/ StreamFetchReturns
    \/ StreamResume
    \/ StreamSleepReturns

FetcherSpec == FetcherInit /\ [][FetcherNext]_vars

\* A generator for any way of reporting the total.
ReportingInit ==
    /\ cache = EmptyCache
    /\ file = NoFile
    /\ gens = [s \in Slots |-> NoGen]
    /\ frame = [s \in Slots |-> IdleFrame]
    /\ hist = [s \in Slots |-> NoHist]
    /\ last_append = None
    /\ service = Service
    /\ helper = NoCall
    /\ parsing = NoParsing
    /\ stream \in {[IteratePages(remote, limit, start) EXCEPT !.reports = reports] :
                      remote \in 0..MaxTotal, limit \in 1..MaxLimit,
                      start \in 0..MaxTotal, reports \in Reports}

ReportingSpec == ReportingInit /\ [][FetcherNext]_vars

\* --------------------------------------------------------- the HTTP service

\* raise HTTPException(status_code, detail), as the client sees it.
HTTPException(status_code, detail) ==
    [status_code |-> status_code, detail |-> detail, answer |-> "",
     message |-> None]

\* A handler that answers with the fallback when answer_question raised.
AskResponseAnsweringFallback(f) ==
    IF f.pc = "raised"
    THEN [status_code |-> 200, detail |-> "", answer |-> Fallback.answer,
          message |-> Fallback.message]
    ELSE [status_code |-> 200, detail |-> "", answer |-> f.result.answer,
          message |-> f.result.message]

\* What ask sends once answer_question has returned or raised.
AskResponse(f) ==
    IF f.pc = "raised"
    THEN HTTPException(500, "Unable to process the question right now.")
    ELSE [status_code |-> 200, detail |-> "", answer |-> f.result.answer,
          message |-> f.result.message]

\* What the requests are given: a blank question and one that is searched
\* for, a resolver that selects nothing or raises, a validator that answers,
\* does not, or raises, and every outcome of a fetch.
ServiceQuestions == {Chars(""), Chars("ref")}
ServiceReplies == {r \in ResolverReplies : r.kind \in {"no_tool", "names_number"}}
ServiceCompletions == ConcCompletions \cup {c \in Completions : c.kind = "error"}

\* POST /ask up to the first suspension of answer_question, or to the
\* HTTPException of a service whose initialization failed.
Ask(q, question) ==
    /\ frame[q].pc = "idle"
    /\ IF service.qa_service = None
       THEN /\ service' =
                 [service EXCEPT !.response[q] = Some(HTTPException(503,
                     "Service not initialized. Check server logs and ensure OPENAI_API_KEY is set."))]
            /\ UNCHANGED <<cache, file, gens, frame, hist, last_append, stream,
                           parsing, helper>>
       ELSE Start(q, question)

\* answer_question returned or raised: ask sends its response.
AskReturns(q) ==
    /\ frame[q].pc \in {"done", "raised"}
    /\ service' = [service EXCEPT !.response[q] = Some(AskResponse(frame[q]))]
    /\ frame' = [frame EXCEPT ![q] = IdleFrame]
    /\ hist' = [hist EXCEPT ![q] = NoHist]
    /\ gens' = [gens EXCEPT ![q] = NoGen]
    /\ UNCHANGED <<cache, file, last_append, stream, parsing, helper>>

\* GET /health
Health ==
    /\ service' = [service EXCEPT !.health = Some("healthy")]
    /\ UNCHANGED <<cache, file, gens, frame, hist, last_append, stream, parsing,
                   helper>>

\* The module-level try block of main.py succeeded, or it raised and left
\* qa_service None.
ServiceInit ==
    /\ cache = EmptyCache
    /\ file = NoFile
    /\ gens = [s \in Slots |-> NoGen]
    /\ frame = [s \in Slots |-> IdleFrame]
    /\ hist = [s \in Slots |-> NoHist]
    /\ last_append = None
    /\ service \in {Service, [Service EXCEPT !.qa_service = None]}
    /\ helper = NoCall
    /\ stream = NoStream
    /\ parsing = NoParsing

ServiceNext ==
    \/ \E q \in {1} :
          \/ \E question \in ServiceQuestions : Ask(q, question)
          \/ \E reply \in ServiceReplies : ResolverReturns(q, reply)
          \/ \E completion \in ServiceCompletions : ValidatorReturns(q, completion)
          \/ \E outcome \in FetchOutcomes : FetchReturns(q, outcome)
          \/ SleepReturns(q)
          \/ AskReturns(q)
    \/ Health

ServiceSpec == ServiceInit /\ [][ServiceNext]_vars

\* ------------------------------------------- helpers called on their own

\* The longest list of items a helper is given.
MaxItems == 2

ItemLists == UNION {[1..n -> DOMAIN MessageTable] : n \in 0..MaxItems}

\* The parsed questions and the name sets _filter_candidates is given: what
\* parse and select_names return.
ParsedQuestions ==
    {Parse(question) : question \in Questions \cup {Chars("Al"), AliceQuestion}}
ResolvedNames ==
    {SelectNames(reply).names : reply \in ResolverReplies \cup AliceReplies}

\* max_messages of the validator (settings.max_validator_messages, below
\* the page size as by default).
MaxValidatorMessages == 1

\* truncated = list(candidates[: self._max_messages])
Truncated(candidates) == Slice(candidates, 0, MaxValidatorMessages)

\* LLMValidator.validate_and_answer from its call to its return: the
\* candidates of the prompt (None when no request is made), the exception
\* raised ("" for none) and the result.
ValidateAndAnswer(candidates, completion) ==
    IF candidates = <<>>
    THEN [prompt |-> None, raised |-> "", result |-> NO_ANSWER]
    ELSE IF completion.kind = "error"
    THEN [prompt |-> Some(Truncated(candidates)), raised |-> "APIError",
          result |-> NO_ANSWER]
    ELSE [prompt |-> Some(Truncated(candidates)), raised |-> "",
          result |-> ValidatorResult(completion)]

\* self._filter_candidates(items, parsed, resolved_names)
FilterCall ==
    /\ helper.fn = "_filter_candidates"
    /\ ~helper.done
    /\ helper' = [helper EXCEPT
                     !.done = TRUE,
                     !.result = FilterCandidates(helper.items, helper.parsed,
                                                 helper.resolved_names)]
    /\ UNCHANGED <<cache, file, gens, frame, hist, last_append, stream, parsing,
                   service>>

\* self._select_source_message(candidates, source_index)
SelectCall ==
    /\ helper.fn = "_select_source_message"
    /\ ~helper.done
    /\ helper' = [helper EXCEPT
                     !.done = TRUE,
                     !.result = SelectSourceMessage(helper.candidates,
                                                    helper.source_index)]
    /\ UNCHANGED <<cache, file, gens, frame, hist, last_append, stream, parsing,
                   service>>

\* self._validator.validate_and_answer(question, candidates), with the
\* completion its request gets.
ValidateCall ==
    /\ helper.fn = "validate_and_answer"
    /\ ~helper.done
    /\ helper' = [helper EXCEPT
                     !.done = TRUE,
                     !.result = ValidateAndAnswer(helper.candidates,
                                                  helper.completion)]
    /\ UNCHANGED <<cache, file, gens, frame, hist, last_append, stream, parsing,
                   service>>

\* One helper call, with arguments within the bounds.
HelperInit ==
    /\ cache = EmptyCache
    /\ file = NoFile
    /\ gens = [s \in Slots |-> NoGen]
    /\ frame = [s \in Slots |-> IdleFrame]
    /\ hist = [s \in Slots |-> NoHist]
    /\ last_append = None
    /\ service = Service
    /\ stream = NoStream
    /\ parsing = NoParsing
    /\ \/ helper \in {[fn |-> "_filter_candidates", done |-> FALSE, items |-> items,
                        parsed |-> parsed, resolved_names |-> names,
                        result |-> <<>>] :
                          items \in ItemLists, parsed \in ParsedQuestions,
                          names \in ResolvedNames}
       \/ helper \in {[fn |-> "_select_source_message", done |-> FALSE,
                        candidates |-> candidates, source_index |-> n,
                        result |-> None] :
                          candidates \in ItemLists,
                          n \in {None} \cup {Some(i) : i \in (0 - 1)..(MaxItems + 1)}}
       \/ helper \in {[fn |-> "validate_and_answer", done |-> FALSE,
                        candidates |-> candidates, completion |-> completion,
                        result |-> [prompt |-> None, raised |-> "",
                                    result |-> NO_ANSWER]] :
                          candidates \in ItemLists, completion \in Completions}

HelperNext ==
    \/ FilterCall
    \/ SelectCall
    \/ ValidateCall

HelperSpec == HelperInit /\ [][HelperNext]_vars

\* ------------------------------------------------------------------ claims

\* A call that got past the blank-question check.
Searching(q) == frame[q].pc # "idle" /\ frame[q].question # <<>>
Returned(q) == frame[q].pc = "done" /\ frame[q].question # <<>>

\* The score as the specification states it: the number of parsed keywords
\* in the source message's text, then its timestamp, the earliest instant
\* when the message or a parseable timestamp is missing.
StatedScore(result, parsed) ==
    IF result.message = None THEN <<0, 0>>
    ELSE LET m == result.message[1]
         IN <<Cardinality({k \in 1..Len(parsed.keywords) :
                             Contains(Lower(MessageText(m)), parsed.keywords[k])}),
              IF Timestamp(m).kind = "iso" THEN Timestamp(m).at ELSE 0>>

LexLess(a, b) == a[1] < b[1] \/ (a[1] = b[1] /\ a[2] < b[2])

\* The earliest of the best-scored answers found is entry i of found.
EarliestBest(q, i) ==
    LET found == hist[q].found
        score(k) == StatedScore(found[k].result, frame[q].parsed)
    IN /\ \A k \in 1..Len(found) : ~LexLess(score(i), score(k))
       /\ \A k \in 1..(i - 1) : LexLess(score(k), score(i))

\* The best-accumulated answer when one was found, else the fallback.
BestOrFallback(q) ==
    IF hist[q].found = <<>> THEN Fallback
    ELSE hist[q].found[CHOOSE i \in 1..Len(hist[q].found) : EarliestBest(q, i)].result

\* C1: once a remote fetch of a question has failed, no further fetch is
\* issued for it and the call returns the best answer accumulated on the
\* cached and earlier remote pages, or the fallback when there is none.
C1_FetchFailureReturnsBestSoFar ==
    \A q \in Slots :
        hist[q].failed =>
            /\ Len(hist[q].fetches) = Len(hist[q].fetched) + 1
            /\ frame[q].pc = "done"
            /\ frame[q].result = BestOrFallback(q)

\* C2: whatever the upstream failure of a page fetch, answer_question
\* returns an AnswerResult and raises nothing; with nothing accumulated the
\* result is the fallback.
C2_UpstreamFailureNeverRaises ==
    \A q \in Slots :
        hist[q].failed =>
            /\ frame[q].pc # "raised"
            /\ hist[q].found = <<>> => frame[q].result = Fallback

\* C3: when the search of a question ends, the answer returned is the
\* validated answer of greatest score (keyword count first, timestamp
\* second) among the pages processed, the earliest found among equals.
C3_BestScoredAnswerReturned ==
    \A q \in Slots : Returned(q) => frame[q].result = BestOrFallback(q)

\* Two answers of equal, greatest score were found and the first is returned.
C3_Witness ==
    \E q \in Slots :
        /\ Returned(q)
        /\ \E i, j \in 1..Len(hist[q].found) :
              /\ i < j
              /\ EarliestBest(q, i)
              /\ StatedScore(hist[q].found[j].result, frame[q].parsed)
                   = StatedScore(hist[q].found[i].result, frame[q].parsed)
              /\ hist[q].found[j].result # hist[q].found[i].result
              /\ frame[q].result = hist[q].found[i].result

\* C4: within one call best_score never decreases from one step to the
\* next, and best_result changes only together with a strictly greater
\* best_score.
C4_BestScoreMonotone ==
    [][\A q \in Slots :
          (Searching(q) /\ frame'[q].pc # "idle") =>
              /\ ~LexLess(frame'[q].best_score, frame[q].best_score)
              /\ frame'[q].best_result # frame[q].best_result =>
                    LexLess(frame[q].best_score, frame'[q].best_score)]_vars

\* A later page gave an answer scored lower than the best so far, and the
\* best is still the earlier answer.
C4_Witness ==
    \E q \in Slots :
        /\ Searching(q)
        /\ Len(hist[q].found) >= 2
        /\ LexLess(hist[q].found[2].score, hist[q].found[1].score)
        /\ hist[q].found[2].result # hist[q].found[1].result
        /\ frame[q].best_result = hist[q].found[1].result
        /\ frame[q].best_score = hist[q].found[1].score

RECURSIVE Concat(_)
Concat(pages) == IF pages = <<>> THEN <<>> ELSE Head(pages).items \o Concat(Tail(pages))

PagesFrom(q, source) == SelectSeq(hist[q].pages, LAMBDA p : p.source = source)

\* C5: a call returns only when a fetch failed or the remote stream is
\* exhausted (an empty page, or the offset has reached the reported total),
\* having processed every cached page and every fetched page, also after a
\* page produced an answer.
C5_SearchIsExhaustive ==
    \A q \in Slots :
        Returned(q) =>
            /\ Concat(PagesFrom(q, "cached"))
                 = SubSeq(cache.messages, 1, hist[q].at_replay_end[1])
            /\ [i \in 1..Len(PagesFrom(q, "remote")) |-> PagesFrom(q, "remote")[i].items]
                 = [i \in 1..Len(hist[q].fetched) |-> hist[q].fetched[i].items]
            /\ \/ hist[q].failed
               \/ hist[q].fetched[Len(hist[q].fetched)].items = <<>>
               \/ /\ frame[q].total # None
                  /\ hist[q].fetches[Len(hist[q].fetches)] + PageSize >= frame[q].total[1]

\* The first page gave an answer, and two more pages were processed after it.
C5_Witness ==
    \E q \in Slots :
        /\ Returned(q)
        /\ hist[q].found # <<>>
        /\ hist[q].found[1].page_no = 1
        /\ Len(hist[q].pages) >= 3
        /\ PagesFrom(q, "cached") # <<>>
        /\ Len(PagesFrom(q, "remote")) >= 2

\* C6: at the natural end of the remote stream the fallback is returned
\* exactly when no page produced a non-sentinel answer; an answer without
\* an attributable source message counts as found.
C6_FallbackIffNothingFound ==
    \A q \in Slots :
        (Returned(q) /\ ~hist[q].failed) =>
            /\ frame[q].result = Fallback <=> hist[q].found = <<>>
            /\ frame[q].result = Fallback => frame[q].result.message = None

\* The only answer found has no source message and is returned.
C6_Witness ==
    \E q \in Slots :
        /\ Returned(q) /\ ~hist[q].failed
        /\ Len(hist[q].found) = 1
        /\ hist[q].found[1].result.message = None
        /\ hist[q].found[1].score = <<0, 0>>
        /\ frame[q].result = hist[q].found[1].result

\* C7: the first remote fetch of a call uses skip = the number of messages
\* cached when its cache replay finished; every later fetch uses a strictly
\* larger skip.
C7_ResumeOffset ==
    \A q \in Slots :
        hist[q].fetches # <<>> =>
            /\ hist[q].at_replay_end # None
            /\ hist[q].fetches[1] = hist[q].at_replay_end[1]
            /\ \A i, j \in 1..Len(hist[q].fetches) :
                  i < j => hist[q].fetches[i] < hist[q].fetches[j]

\* Messages were cached, the first fetch used their number as skip, and a
\* second fetch followed.
C7_Witness ==
    \E q \in Slots :
        /\ Len(hist[q].fetches) >= 2
        /\ hist[q].at_replay_end # None
        /\ hist[q].at_replay_end[1] > 0
        /\ hist[q].fetches[1] = hist[q].at_replay_end[1]
        /\ Len(cache.messages) > hist[q].at_replay_end[1]

InCache(m) == \E i \in 1..Len(cache.messages) : cache.messages[i] = m

\* Every message of the first n pages the call fetched is cached.
PagesCached(q, n) ==
    \A i \in 1..n :
        \A k \in 1..Len(hist[q].fetched[i].items) : InCache(hist[q].fetched[i].items[k])

\* C8: each page a call fetched is in the cache before its next fetch is
\* issued and when it returns, whether or not the page produced an answer;
\* only the page being processed is not yet cached.
C8_FetchedPagesAreCached ==
    \A q \in Slots :
        LET n == Len(hist[q].fetched)
        IN /\ frame[q].pc \in {"sleep", "fetch", "done"} => PagesCached(q, n)
           /\ (n > 0 /\ frame[q].pc \in {"resolve", "validate", "raised"})
                 => PagesCached(q, n - 1)
           /\ Len(hist[q].fetches) > n => PagesCached(q, n)

\* A call returned that found nothing, and the page it fetched is cached.
C8_Witness ==
    \E q \in Slots :
        /\ Returned(q)
        /\ hist[q].found = <<>>
        /\ hist[q].fetched # <<>>
        /\ hist[q].fetched[1].items # <<>>
        /\ PagesCached(q, Len(hist[q].fetched))

\* Two stored messages carry the same id.
SharedId(messages) ==
    \E i, j \in 1..Len(messages) :
        i # j /\ ItemId(messages[i]) # <<>> /\ ItemId(messages[i]) = ItemId(messages[j])

\* The id of message m is stored in messages.
IdStored(messages, m) ==
    ItemId(m) # <<>> /\ \E i \in 1..Len(messages) : ItemId(messages[i]) = ItemId(m)

IsPrefix(a, b) == Len(a) <= Len(b) /\ SubSeq(b, 1, Len(a)) = a

\* C9: no two stored messages share an id; an append_items call leaves what
\* was stored where it was, stores no message whose id was stored before,
\* and changes nothing when every item's id was stored before.
C9_IdsStayUnique ==
    /\ ~SharedId(cache.messages)
    /\ last_append # None =>
          LET before == last_append[1].before.messages
              items == last_append[1].items
          IN /\ IsPrefix(before, cache.messages)
             /\ \A k \in (Len(before) + 1)..Len(cache.messages) :
                   ~IdStored(before, cache.messages[k])
             /\ (\A k \in 1..Len(items) : IdStored(before, items[k]))
                   => cache.messages = before

\* A message whose id was stored was appended again, with a new one.
C9_Witness ==
    /\ last_append # None
    /\ \E k \in 1..Len(last_append[1].items) :
          /\ IdStored(last_append[1].before.messages, last_append[1].items[k])
          /\ ~InCache(last_append[1].items[k])
    /\ Len(cache.messages) > Len(last_append[1].before.messages)

\* C10: with no append_items call in between, iter_pages calls of one page
\* size yield the same pages, and the store and the file are as they were
\* when the generator was made.
C10_ReplayIsPure ==
    \A g \in Slots :
        gens[g].fresh =>
            /\ gens[g].snap = <<cache, file>>
            /\ \A g2 \in Slots :
                  (gens[g2].fresh /\ gens[g2].limit = gens[g].limit) =>
                      /\ IsPrefix(gens[g].out, gens[g2].out)
                           \/ IsPrefix(gens[g2].out, gens[g].out)
                      /\ (gens[g].state = "finished" /\ gens[g2].state = "finished")
                            => gens[g].out = gens[g2].out

\* Two replays of a store of several pages ran to their end with no append
\* in between.
C10_Witness ==
    /\ \A g \in Slots : gens[g].fresh /\ gens[g].state = "finished"
    /\ gens[1].limit = gens[2].limit
    /\ Len(gens[1].out) >= 2
    /\ gens[1].out = gens[2].out

\* C11: against a remote that reports a fixed total T and serves the items
\* at [skip, min(skip + limit, T)), iterate_pages(limit = L, start = s) with
\* s < T fetches exactly at the offsets s, s + L, s + 2L, ... below T, each
\* once and in increasing order, and then ends; for T = 10, L = 4, s = 0 it
\* yields 3 pages of 4, 4 and 2 items at the offsets 0, 4 and 8.
C11_OffsetsUntilTotal ==
    (stream.state # "none" /\ stream.start < stream.remote) =>
        LET due == {o \in stream.start..(stream.remote - 1) :
                        (o - stream.start) % stream.limit = 0}
            counts == [i \in 1..Len(stream.yielded) |-> Len(stream.yielded[i].items)]
        IN /\ \A i \in 1..Len(stream.offsets) : stream.offsets[i] \in due
           /\ \A i, j \in 1..Len(stream.offsets) :
                  i < j => stream.offsets[i] < stream.offsets[j]
           /\ \A i \in 1..Len(stream.yielded) :
                  stream.yielded[i].items =
                      [k \in 1..(Min(stream.offsets[i] + stream.limit, stream.remote)
                                   - stream.offsets[i]) |-> stream.offsets[i] + k]
           /\ stream.state = "ended" =>
                  /\ {stream.offsets[i] : i \in 1..Len(stream.offsets)} = due
                  /\ Len(stream.yielded) = Len(stream.offsets)
           /\ (stream.state = "ended" /\ stream.remote = 10 /\ stream.limit = 4
                 /\ stream.start = 0) =>
                  stream.offsets = <<0, 4, 8>> /\ counts = <<4, 4, 2>>

C11_Witness ==
    /\ stream.state = "ended"
    /\ stream.remote = 10 /\ stream.limit = 4 /\ stream.start = 0
    /\ Len(stream.yielded) = 3

\* C12: for every empty or whitespace-only question answer_question returns
\* the fixed prompt-for-input message with no source message, and the call
\* replays no cached page, changes neither the cache nor its file, fetches
\* no remote page and calls no LLM.
C12_BlankQuestionIsPrompted ==
    [][\A q \in Slots :
          (frame[q].pc = "idle" /\ frame'[q].pc # "idle"
             /\ frame'[q].question = <<>>) =>
              /\ frame'[q].pc = "done"
              /\ frame'[q].result = PromptForInput
              /\ frame'[q].result.message = None
              /\ hist'[q] = NoHist
              /\ UNCHANGED <<cache, file, gens, last_append>>]_vars

\* A blank question was answered while the cache held pages to replay.
C12_Witness ==
    /\ frame[1].pc = "done"
    /\ frame[1].question = <<>>
    /\ frame[1].result = PromptForInput
    /\ Len(cache.messages) > 0

\* The payloads that are no JSON or whose fields have the wrong shape.
MalformedPayloads == {"not_json", "not_object", "bad_source", "bad_answer"}

\* C13: when the validator's function-call payload fails to parse as JSON
\* or has a wrong field shape, validate_and_answer returns the sentinel
\* instead of raising, the page leaves the best result as it was, and the
\* call goes on to the next page.
C13_MalformedPayloadIsSentinel ==
    [][\A q \in Slots :
       \A completion \in {c \in Completions : c.payload \in MalformedPayloads} :
          ValidatorReturns(q, completion) =>
              /\ frame'[q].pc # "raised"
              /\ hist'[q].found = hist[q].found
              /\ frame'[q].best_result = frame[q].best_result
              /\ frame'[q].best_score = frame[q].best_score
              /\ Len(hist'[q].pages) > Len(hist[q].pages)]_vars

\* The completions of the name resolver that carry no usable list of names.
FailedResolverReplies ==
    {r \in ResolverReplies :
        r.kind \in {"error", "no_tool", "bad_json", "not_object",
                    "names_number", "names_string"}}

\* The page filtered by the parsed member name alone: the sender contains
\* it, whatever the case, and the text contains one of the keywords.
HeuristicCandidates(items, parsed) ==
    LET Keeps(item) ==
            /\ parsed.member_name # <<>> =>
                   Contains(Lower(UserName(item)), Lower(parsed.member_name))
            /\ parsed.keywords # <<>> =>
                   \E k \in 1..Len(parsed.keywords) :
                       Contains(Lower(MessageText(item)), parsed.keywords[k])
    IN SelectSeq(items, Keeps)

\* C14: when the name resolver's LLM call fails in transport, returns a
\* malformed response or returns no tool call, select_names returns the
\* empty set without raising: the page is filtered by the parsed member
\* name (substring match) and the call goes on.
C14_ResolverFailsSoft ==
    [][\A q \in Slots : \A reply \in FailedResolverReplies :
          ResolverReturns(q, reply) =>
              LET expected == HeuristicCandidates(frame[q].page.items,
                                                  frame[q].parsed)
                  n == Len(hist[q].pages)
              IN /\ frame'[q].pc # "raised"
                 /\ IF Len(hist'[q].pages) > n
                    THEN hist'[q].pages[n + 1].candidates = expected
                    ELSE /\ frame'[q].pc = "validate"
                         /\ frame'[q].candidates = expected]_vars

\* The file holds the whole store, or there is no file and nothing stored.
FileIsStore ==
    IF file.exists THEN file = Persist(cache) ELSE cache = EmptyCache

\* The step is one whole append_items call and nothing else on the store.
OneAppend ==
    /\ last_append' # None
    /\ LET call == last_append'[1]
           r == AppendItems(cache, file, call.items, call.remote_total)
       IN /\ call.before = cache
          /\ cache' = r.cache
          /\ file' = r.file

\* C15: whatever way concurrent answer_question calls on one cache
\* interleave, every change of the store or the file is one whole
\* append_items call, no stored id is duplicated, the known ids are those of
\* the stored messages, and the file holds the complete store as the
\* latest append wrote it.
C15_AppendsAreAtomic ==
    /\ [](/\ ~SharedId(cache.messages)
          /\ cache.ids = {ItemId(cache.messages[i]) : i \in 1..Len(cache.messages)}
                             \ {<<>>}
          /\ FileIsStore)
    /\ [][(cache' # cache \/ file' # file) => OneAppend]_vars

\* Two calls are under way, both fetched a page, and the latest append
\* brought only messages whose ids the other call had stored.
C15_Witness ==
    /\ \A q \in Slots :
          frame[q].pc \in {"resolve", "validate", "fetch", "sleep"}
             /\ hist[q].fetched # <<>>
    /\ last_append # None
    /\ last_append[1].items # <<>>
    /\ \A k \in 1..Len(last_append[1].items) :
          IdStored(last_append[1].before.messages, last_append[1].items[k])
    /\ file = Persist(cache)

\* The pages handed to call q so far: replayed ones, then fetched ones.
Delivered(q) ==
    [i \in 1..Len(gens[q].out) |-> gens[q].out[i].items]
        \o [i \in 1..Len(hist[q].fetched) |-> hist[q].fetched[i].items]

\* C16: within one question the pages are processed one after another:
\* the cached pages in storage order, then the remote pages in increasing
\* offset order; no fetch is issued before the last cached page is fully
\* processed, and at most one page is being processed (resolver and
\* validator calls included) at any time, none while a fetch is pending.
C16_PagesOneAfterAnother ==
    \A q \in Slots :
        Searching(q) =>
            LET pages == hist[q].pages
                fetches == hist[q].fetches
                busy == IF frame[q].pc \in {"resolve", "validate"} THEN 1 ELSE 0
            IN /\ \A i, j \in 1..Len(pages) :
                      (i < j /\ pages[i].source = "remote") => pages[j].source = "remote"
               /\ \A i \in 1..Len(gens[q].out) :
                      gens[q].out[i].items
                          = Slice(cache.messages, (i - 1) * PageSize, PageSize)
               /\ \A i \in 1..Len(fetches) :
                      fetches[i] = frame[q].remote_start + (i - 1) * PageSize
               /\ IF frame[q].pc = "raised"
                  THEN Len(Delivered(q)) - Len(pages) \in {0, 1}
                  ELSE Len(Delivered(q)) = Len(pages) + busy
               /\ [i \in 1..Len(pages) |-> pages[i].items]
                      = SubSeq(Delivered(q), 1, Len(pages))
               /\ fetches # <<>> =>
                      /\ gens[q].state = "finished"
                      /\ Len(PagesFrom(q, "cached")) = Len(gens[q].out)
                      /\ Concat(PagesFrom(q, "cached"))
                            = SubSeq(cache.messages, 1, frame[q].remote_start)
               /\ frame[q].pc = "fetch" =>
                      /\ Len(fetches) = Len(hist[q].fetched) + 1
                      /\ Len(pages) = Len(Delivered(q))

\* A call processed two cached pages, then the page it fetched, and
\* returned.
C16_Witness ==
    /\ Returned(1)
    /\ Len(PagesFrom(1, "cached")) >= 2
    /\ Len(PagesFrom(1, "remote")) >= 1
    /\ hist[1].fetches = <<Len(cache.messages)>>

\* C17: for "What did Alice say about the refund policy?", one cached page
\* with a message of "Alice Smith" on "refund policy will be updated" and a
\* validator that returns that message's text with source_number 1, the
\* answer returned is that text and the message returned is hers.
C17_AliceIsAnswered ==
    Returned(1) =>
        /\ Chars(frame[1].result.answer) = MessageText(7)
        /\ frame[1].result.message = Some(7)
        /\ UserName(frame[1].result.message[1]) = Chars("Alice Smith")

\* The call returned after the cached page and a fetched page.
C17_Witness ==
    /\ Returned(1)
    /\ frame[1].question = AliceQuestion
    /\ Len(PagesFrom(1, "cached")) = 1
    /\ hist[1].fetched # <<>>
    /\ frame[1].result.message = Some(7)

\* The tokens of the text, lowercased, in the order of the text.
LowerTokens(text) ==
    LET found == FindTokens(text, 1)
    IN [i \in 1..Len(found) |-> Lower(found[i])]

\* The place of the first token equal to `word`.
FirstPlace(tokens, word) ==
    CHOOSE i \in 1..Len(tokens) :
        tokens[i] = word /\ \A j \in 1..(i - 1) : tokens[j] # word

\* C18: the keywords extracted from any text are lowercase tokens of it,
\* none is a stop-word, none has two characters or fewer, none occurs
\* twice, and they stand in the order of their first occurrence in the
\* text.  (That two runs on one text agree follows from the extraction
\* being a function of the text alone.)
C18_KeywordsAreClean ==
    parsing.done =>
        LET keywords == parsing.result.keywords
            tokens == LowerTokens(parsing.question)
        IN /\ \A k \in 1..Len(keywords) :
                  /\ keywords[k] = Lower(keywords[k])
                  /\ keywords[k] \in Range(tokens)
                  /\ keywords[k] \notin StopWords
                  /\ Len(keywords[k]) > 2
           /\ \A i, j \in 1..Len(keywords) :
                  i < j => /\ keywords[i] # keywords[j]
                           /\ FirstPlace(tokens, keywords[i])
                                 < FirstPlace(tokens, keywords[j])

\* A text with a capitalised and a plain occurrence of one word around a
\* stop-word gave one keyword.
C18_Witness ==
    /\ parsing.done
    /\ parsing.question = Chars("Ref the ref")
    /\ parsing.result.keywords = <<Chars("ref")>>

\* The phrase stands in the text right after a locative preposition.
AfterLocative(text, phrase) ==
    \E i \in 1..Len(text) :
        /\ i + Len(phrase) - 1 <= Len(text)
        /\ SubSeq(text, i, i + Len(phrase) - 1) = phrase
        /\ \E cue \in LocationCues :
              LET before == RStrip(SubSeq(text, 1, i - 1))
                  n == Len(before) - Len(cue)
              IN /\ before # SubSeq(text, 1, i - 1)
                 /\ n >= 0
                 /\ Lower(SubSeq(before, n + 1, Len(before))) = cue
                 /\ n = 0 \/ before[n] \notin TokenChars

\* C19: member-name extraction never returns a capitalised phrase that
\* stands right after a locative preposition (to, in, at, into, onto,
\* towards, from), also when the phrase stands earlier in the text after
\* something else.
C19_NoNameAfterLocative ==
    (parsing.done /\ parsing.result.member_name # <<>>) =>
        ~AfterLocative(parsing.question, parsing.result.member_name)

\* C20: parse("I sent it to London") gives no member name, and
\* parse("Did London mention the event") gives the member name "London".
C20_LondonExamples ==
    parsing.done =>
        /\ parsing.question = Chars("I sent it to London")
              => parsing.result.member_name = <<>>
        /\ parsing.question = Chars("Did London mention the event")
              => parsing.result.member_name = Chars("London")

\* The HTTPException a failed answer_question is reported as.
UnableToProcess ==
    [status_code |-> 500, detail |-> "Unable to process the question right now.",
     answer |-> "", message |-> None]

\* C21: at the service boundary an error raised while answering is sent as
\* the generic "unable to process" failure, which is no answer and differs
\* from the response that carries the "no answer found" fallback; a service
\* whose pipeline was not initialized sends a service-unavailable failure to
\* every question and never starts a search; a response with an answer is
\* sent only for a result answer_question returned.
C21_ErrorsAreNotAnswers ==
    /\ [](\A q \in Slots :
            /\ service.qa_service = None =>
                  /\ frame[q].pc = "idle"
                  /\ service.response[q] # None =>
                        /\ service.response[q][1].status_code = 503
                        /\ service.response[q][1].answer = ""
            /\ service.response[q] # None =>
                  service.response[q][1].status_code \in {200, 500, 503})
    /\ [][\A q \in Slots :
            /\ (frame[q].pc = "raised" /\ frame'[q].pc = "idle") =>
                  /\ service'.response[q] = Some(UnableToProcess)
                  /\ service'.response[q][1].answer # Fallback.answer
            /\ (frame[q].pc = "done" /\ frame'[q].pc = "idle") =>
                  /\ service'.response[q][1].status_code = 200
                  /\ service'.response[q][1].answer = frame[q].result.answer
                  /\ service'.response[q][1].message = frame[q].result.message
            /\ (service'.response[q] # service.response[q]
                /\ service'.response[q][1].status_code = 200) =>
                  frame[q].pc = "done"]_vars

\* A call raised after a page was cached, and the question was sent the
\* generic failure.
C21_Witness ==
    /\ service.response[1] = Some(UnableToProcess)
    /\ frame[1].pc = "idle"
    /\ cache.messages # <<>>

\* C22: GET /health reports healthy only when the pipeline's dependencies
\* were initialized, that is when qa_service is set.
C22_HealthyOnlyWhenInitialized ==
    service.health = Some("healthy") => service.qa_service # None

\* Two strings are equal but for the case of their letters.
SameIgnoringCase(a, b) ==
    /\ Len(a) = Len(b)
    /\ \A i \in 1..Len(a) : LowerChar(a[i]) = LowerChar(b[i])

\* needle occurs in hay, the case of the letters aside.
HasIgnoringCase(hay, needle) ==
    \E i \in 0..(Len(hay) - Len(needle)) :
        SameIgnoringCase(SubSeq(hay, i + 1, i + Len(needle)), needle)

\* The positions of the items a filter call is to keep.
StatedKept(items, parsed, names) ==
    {i \in 1..Len(items) :
        /\ IF names # {}
           THEN \E name \in names : SameIgnoringCase(UserName(items[i]), name)
           ELSE IF parsed.member_name # <<>>
           THEN HasIgnoringCase(UserName(items[i]), parsed.member_name)
           ELSE TRUE
        /\ parsed.keywords # <<>> =>
              \E k \in 1..Len(parsed.keywords) :
                  HasIgnoringCase(MessageText(items[i]), parsed.keywords[k])}

\* b holds the items of a at the positions of kept, in their order.
IsSubsequenceAt(a, kept, b) ==
    /\ Len(b) = Cardinality(kept)
    /\ \A i \in kept : b[Cardinality({j \in kept : j <= i})] = a[i]

\* C23: the candidates of a page are its messages, in their order, that
\* (1) are from a sender equal, case aside, to a name of the resolver's set
\* when that set is not empty (the parsed member name is then ignored), or
\* else from a sender containing the parsed member name, case aside, when
\* one was parsed, or else from any sender; and (2) contain, case aside, at
\* least one parsed keyword when keywords were parsed.
C23_CandidateFilterRule ==
    (helper.fn = "_filter_candidates" /\ helper.done) =>
        IsSubsequenceAt(helper.items,
                        StatedKept(helper.items, helper.parsed,
                                   helper.resolved_names),
                        helper.result)

\* The resolver selected "bo" for a question that names Al and has keywords:
\* of a page of two messages one is kept, which is not from Al.
C23_Witness ==
    /\ helper.fn = "_filter_candidates"
    /\ helper.done
    /\ helper.resolved_names = {Chars("bo")}
    /\ helper.parsed.member_name = Chars("Al")
    /\ helper.parsed.keywords # <<>>
    /\ Len(helper.items) = 2
    /\ Len(helper.result) = 1
    /\ ~HasIgnoringCase(UserName(helper.result[1]), Chars("Al"))

\* C24: _select_source_message returns the candidate at position
\* source_index - 1 (counting from 0) when source_index is given and within
\* the candidates; otherwise the only candidate when there is exactly one;
\* otherwise no message, as for a source_index of 0, below 0 or beyond the
\* end with two or more candidates.
C24_SourceMessageSelection ==
    (helper.fn = "_select_source_message" /\ helper.done) =>
        LET candidates == helper.candidates
            n == helper.source_index
        IN /\ helper.result =
                 IF n # None /\ n[1] >= 1 /\ n[1] <= Len(candidates)
                 THEN Some(candidates[n[1]])
                 ELSE IF Len(candidates) = 1 THEN Some(candidates[1])
                 ELSE None
           /\ (/\ Len(candidates) >= 2
               /\ n # None
               /\ (n[1] <= 0 \/ n[1] > Len(candidates))) => helper.result = None

\* Two candidates and a source_index beyond them: no message.
C24_Witness ==
    /\ helper.fn = "_select_source_message"
    /\ helper.done
    /\ Len(helper.candidates) = 2
    /\ helper.source_index = Some(3)
    /\ helper.result = None

\* C25: a result that is accumulated with a source message has one of the
\* candidates the validator was shown for that page, the first
\* MaxValidatorMessages of the candidate list; a source_number beyond those
\* selects no message from a list of two or more candidates.
C25_SourceWasShown ==
    [][\A q \in Slots : \A completion \in Completions :
          (ValidatorReturns(q, completion)
           /\ Len(hist'[q].found) > Len(hist[q].found)) =>
              LET shown == Truncated(frame[q].candidates)
                  message == hist'[q].found[Len(hist[q].found) + 1].result.message
                  validation == ValidatorResult(completion)
              IN /\ message # None =>
                       \E i \in 1..Len(shown) :
                           /\ message = Some(shown[i])
                           /\ Len(frame[q].candidates) > 1 =>
                                  validation.source_index = Some(i)
                 /\ (/\ Len(frame[q].candidates) > 1
                     /\ validation.source_index # None
                     /\ validation.source_index[1] > Len(shown)) =>
                       message = None]_vars

\* The content of a completion and the answer_text of its function call,
\* without the whitespace around them.
StatedContent(completion) == StripText(completion.content)
StatedAnswerText(completion) ==
    IF completion.kind = "tool" THEN StripText(completion.answer_text) ELSE ""

C27_NoRequestWithoutCandidates ==
    /\ [](\A q \in Slots :
            /\ frame[q].pc = "validate" =>
                  frame[q].candidates # <<>> /\ frame[q].page.items # <<>>
            /\ frame[q].pc = "resolve" => frame[q].page.items # <<>>
            /\ \A k \in 1..Len(hist[q].found) :
                  hist[q].found[k].page_no <= Len(hist[q].pages) =>
                      hist[q].pages[hist[q].found[k].page_no].candidates # <<>>)
    /\ [][\A q \in Slots :
            /\ (frame[q].pc # "validate" /\ frame'[q].pc # "idle") =>
                  /\ frame'[q].best_result = frame[q].best_result
                  /\ frame'[q].best_score = frame[q].best_score
                  /\ hist'[q].found = hist[q].found
            /\ (frame[q].pc = "validate" /\ frame'[q].pc # "idle") =>
                  /\ Len(hist'[q].found) <= Len(hist[q].found) + 1
                  /\ Len(hist'[q].found) > Len(hist[q].found) =>
                        hist'[q].found[Len(hist'[q].found)].page_no
                            = Len(hist[q].pages) + 1]_vars

\* A call that found an answer went over a page whose messages gave no
\* candidate and over a page without items.
C27_Witness ==
    \E i, j \in 1..Len(hist[1].pages) :
        /\ hist[1].pages[i].items # <<>>
        /\ hist[1].pages[i].candidates = <<>>
        /\ hist[1].pages[j].items = <<>>
        /\ hist[1].found # <<>>
        /\ frame[1].best_result # NoResult

\* C28: processing the cached pages of a question never changes the cache:
\* a step of a call that has not yet been returned a remote page makes no
\* append_items call and leaves the store and the cache file as they are;
\* and whenever the store, the file or the latest append_items call changes,
\* the items appended are those of the remote page some call was returned
\* last and has just processed.
C28_ReplayLeavesCacheAlone ==
    [][/\ \A q \in Slots :
            (/\ frame'[q] # frame[q]
             /\ frame'[q].pc # "idle"
             /\ hist'[q].fetched = <<>>) =>
                /\ cache' = cache
                /\ file' = file
                /\ last_append' = last_append
       /\ (cache' # cache \/ file' # file \/ last_append' # last_append) =>
            \E q \in Slots :
                /\ frame'[q] # frame[q]
                /\ hist'[q].fetched # <<>>
                /\ Len(hist'[q].pages) = Len(hist[q].pages) + 1
                /\ LET page == hist'[q].fetched[Len(hist'[q].fetched)]
                       done == hist'[q].pages[Len(hist'[q].pages)]
                   IN /\ done.source = "remote"
                      /\ done.items = page.items
                      /\ last_append' =
                            Some(AppendCall(cache, page.items, page.total))]_vars

\* A call has replayed two cached pages and waits for its first remote
\* page; the store and the file are as they were when it started.
C28_Witness ==
    \E q \in Slots :
        /\ frame[q].pc = "fetch"
        /\ hist[q].fetched = <<>>
        /\ Len(hist[q].pages) = 2
        /\ \A i \in 1..2 : hist[q].pages[i].source = "cached"
        /\ Concat(hist[q].pages) = cache.messages
        /\ file = Persist(cache)

\* The positions of the items an append_items call is to store: those
\* without id, and the first of each id that was not stored before.
StatedNew(before, items) ==
    {i \in 1..Len(items) :
        \/ ItemId(items[i]) = <<>>
        \/ /\ ~IdStored(before, items[i])
           /\ \A j \in 1..(i - 1) : ItemId(items[j]) # ItemId(items[i])}

\* C29: the cache is append-only: in every step the messages stored before
\* are a prefix of the messages stored after and cached_count does not
\* decrease; after an append_items call the store is the store before the
\* call followed by the new items, in the order they have in the call.
C29_CacheIsAppendOnly ==
    /\ [][/\ IsPrefix(cache.messages, cache'.messages)
          /\ CachedCount(cache') >= CachedCount(cache)]_vars
    /\ [](last_append # None =>
            LET before == last_append[1].before.messages
                items == last_append[1].items
                new == SubSeq(cache.messages, Len(before) + 1, Len(cache.messages))
            IN /\ Len(cache.messages) >= Len(before)
               /\ cache.messages = before \o new
               /\ IsSubsequenceAt(items, StatedNew(before, items), new))

\* A call with an item whose id was stored before, followed by a new one:
\* the new one alone is stored, after what was stored.
C29_Witness ==
    /\ last_append # None
    /\ last_append[1].before.messages # <<>>
    /\ Len(last_append[1].items) = 2
    /\ StatedNew(last_append[1].before.messages, last_append[1].items) = {2}
    /\ cache.messages =
          last_append[1].before.messages \o <<last_append[1].items[2]>>

\* C30: iter_pages(limit) replays the stored messages in storage order as
\* consecutive chunks: no page yielded is empty, every page but the last
\* has exactly limit items, the pages are the stored messages from the
\* first on without gap or overlap, a finished replay has yielded at least
\* the messages stored when it began and, with no append_items call since
\* the generator was made, exactly the stored messages; a replay of an
\* empty store yields no page.
C30_ReplayInChunks ==
    \A q \in Slots :
        LET g == gens[q]
            n == Len(g.out)
        IN g.state \in {"running", "finished"} =>
              /\ \A i \in 1..n :
                    /\ g.out[i].items # <<>>
                    /\ Len(g.out[i].items) <= g.limit
                    /\ i < n => Len(g.out[i].items) = g.limit
                    /\ g.out[i].items =
                          SubSeq(cache.messages, (i - 1) * g.limit + 1,
                                 (i - 1) * g.limit + Len(g.out[i].items))
              /\ g.state = "finished" =>
                    /\ Len(Concat(g.out)) >= g.total
                    /\ g.total = 0 => g.out = <<>>
                    /\ g.fresh => Concat(g.out) = cache.messages

\* A finished replay of a store that is no multiple of the page size: the
\* last of its pages is shorter than the others.
C30_Witness ==
    \E q \in Slots :
        /\ gens[q].state = "finished"
        /\ gens[q].fresh
        /\ Len(gens[q].out) >= 2
        /\ Len(gens[q].out[Len(gens[q].out)].items) < gens[q].limit
        /\ Concat(gens[q].out) = cache.messages

\* C31: an append_items call whose remote_total differs from the stored one
\* stores the new remote_total and writes the whole store to the file before
\* it returns, also when its items are empty or all known.
C31_NewTotalIsPersisted ==
    last_append # None =>
        (last_append[1].remote_total # last_append[1].before.remote_total =>
            /\ cache.remote_total = last_append[1].remote_total
            /\ file = Persist(cache))

\* C32: every append_items call that changes the store in memory (messages or
\* remote_total) leaves the file equal to the store in memory when it
\* returns.
C32_ChangeIsFlushed ==
    /\ [][cache' # cache => file' = Persist(cache')]_vars
    /\ [](last_append # None =>
            (cache # last_append[1].before => file = Persist(cache)))

\* An append_items call has changed only the remote_total of a store that
\* holds messages, and the file holds the store with the new remote_total.
C32_Witness ==
    /\ last_append # None
    /\ cache.messages = last_append[1].before.messages
    /\ cache.messages # <<>>
    /\ cache.remote_total # last_append[1].before.remote_total
    /\ file = Persist(cache)

\* C33: constructing the cache raises on no store file; a missing or blank
\* file gives the empty store, and a file whose load raises gives the empty
\* store too, never a part of what was read.
C33_ConstructNeverFails ==
    (helper.fn = "LocalCache" /\ last_append = None) =>
        /\ helper.raised = ""
        /\ (~file.exists \/ file.content = "blank") => cache = EmptyCache
        /\ file.content \notin {"", "blank", "store"} => cache = EmptyCache
        /\ cache.ids = {ItemId(cache.messages[i]) :
                           i \in 1..Len(cache.messages)} \ {<<>>}

\* The cache was constructed on a file whose messages were read before an
\* entry that is no object made the load raise.
C33_Witness ==
    /\ helper.fn = "LocalCache"
    /\ last_append = None
    /\ file.content = "bad_message"
    /\ file.messages # <<>>
    /\ cache = EmptyCache

\* C34: a cache constructed from the file a previous instance persisted has
\* the same messages in the same order, the same remote_total, the same
\* cached_count and the same known ids, and appending again any message
\* stored before the restart adds nothing.
C34_RestartRoundTrip ==
    [][(Restart /\ file.content = "store") =>
          /\ cache'.messages = cache.messages
          /\ cache'.remote_total = cache.remote_total
          /\ CachedCount(cache') = CachedCount(cache)
          /\ cache'.ids = cache.ids
          /\ \A i \in 1..Len(cache.messages) :
                AppendItems(cache', file', <<cache.messages[i]>>, None).cache
                    = cache']_vars

\* C35: when the remote reports no total that is an integer or converts to
\* one, iterate_pages fetches at offsets that go up by limit from start, and
\* it ends right after the first page with no items: that page is the last
\* one fetched.
C35_EndsOnEmptyPage ==
    (stream.state # "none" /\ stream.reports \in {"null", "text"}) =>
        LET fetched == Len(stream.offsets)
            yielded == Len(stream.yielded)
        IN /\ stream.total = None
           /\ \A i \in 1..fetched :
                 stream.offsets[i] = stream.start + (i - 1) * stream.limit
           /\ fetched - yielded \in {0, 1}
           /\ \A i \in 1..yielded :
                 stream.yielded[i].items = <<>> =>
                     /\ i = fetched
                     /\ stream.state \in {"yielded", "ended"}
           /\ stream.state = "ended" =>
                 /\ yielded > 0
                 /\ stream.yielded[yielded].items = <<>>
           /\ stream.state = "sleep" => stream.yielded[yielded].items # <<>>

\* A generator whose remote reports no usable total ended on the empty page
\* it fetched after three pages with items.
C35_Witness ==
    /\ stream.reports = "text"
    /\ stream.state = "ended"
    /\ Len(stream.offsets) = 4
    /\ stream.yielded[4].items = <<>>
    /\ stream.yielded[3].items # <<>>

\* C36: a call with a non-blank question whose cache already holds every
\* remote message makes exactly one fetch_page call, at skip = cached_count,
\* and its remote phase ends when that call returns the empty page; no call
\* with a non-blank question returns without a fetch_page call.
C36_OneFetchWhenComplete ==
    \A q \in Slots :
        /\ Returned(q) =>
              /\ hist[q].fetches # <<>>
              /\ hist[q].at_replay_end # None
              /\ hist[q].fetches[1] = hist[q].at_replay_end[1]
        /\ (Searching(q) /\ hist[q].at_replay_end # None
              /\ hist[q].at_replay_end[1] >= Len(Remote)) =>
              /\ hist[q].fetches = <<hist[q].at_replay_end[1]>>
              /\ \A i \in 1..Len(hist[q].fetched) : hist[q].fetched[i].items = <<>>
              /\ (hist[q].fetched # <<>> /\ frame[q].pc # "raised") =>
                    Returned(q) /\ hist[q].ended = "empty_page"
              /\ Returned(q) => hist[q].ended \in {"empty_page", "fetch_failed"}

\* A call that replayed a cache holding all the remote messages has returned
\* after its one fetch came back empty.
C36_Witness ==
    /\ Returned(1)
    /\ hist[1].at_replay_end = Some(Len(Remote))
    /\ cache.messages = Remote
    /\ hist[1].fetches = <<Len(Remote)>>
    /\ Len(hist[1].fetched) = 1
    /\ hist[1].ended = "empty_page"

\* C37: with calls running side by side on one cache, every message that is
\* in the cache when a call reads cached_count for its remote offset was on
\* one of the cached pages that call processed.
C37_ReplayCoversResumeOffset ==
    \A q \in Slots :
        (Searching(q) /\ hist[q].at_replay_end # None) =>
            Concat(PagesFrom(q, "cached"))
                = SubSeq(cache.messages, 1, hist[q].at_replay_end[1])

\* C38: against a static remote that honours skip and limit, after any
\* sequence or interleaving of answer_question calls the cached messages
\* are a prefix of the remote's messages with no message twice, messages
\* without id included, so that cached_count is a correct resume offset.
C38_CacheIsRemotePrefix ==
    /\ IsPrefix(cache.messages, Remote)
    /\ \A i, j \in 1..Len(cache.messages) :
          i # j => cache.messages[i] # cache.messages[j]

\* C39: when every network call returns or fails in the end and the remote
\* reports an integer total or serves an empty page past its last message,
\* every answer_question call with a question to search returns a result in
\* the end.
C39_EventuallyReturns == \A q \in {1} : Searching(q) ~> Returned(q)

=============================================================================
